---- MODULE Spec2Model ----
(***************************************************************************)
(* Model of the workflow tools of Calyb/tools:                             *)
(*   dry_run_executor.py   - class DryRunExecutor (the dry-run simulator)  *)
(*   workflow_validator.py - class WorkflowValidator (the static checks)   *)
(*                                                                         *)
(* A Python str is a sequence of one-character strings, so that substring  *)
(* tests, str.lower, str.title, str() and the regular expressions of the   *)
(* source are computed character by character.  A parsed JSON document is  *)
(* a tagged tree; a JSON object keeps its pairs in insertion order.        *)
(***************************************************************************)
EXTENDS Integers, Sequences, FiniteSets, TLC

VARIABLES
    \* DryRunExecutor
    trace_id,           \* self.trace_id
    simulated_outputs,  \* self.simulated_outputs: step id -> (output key -> value)
    workflow,           \* the argument of the running execute() call
    phase,              \* where execute() stands: INIT, PRECONDITIONS, STEPS, ...
    i,                  \* iterations of the loop of _execute_steps completed so far
    inputs,             \* the resolved inputs of every _simulate_step call of the run
    log,                \* what the run printed, as events
    runs,               \* number of execute() calls on this instance
    earlier_traces,     \* trace ids under which earlier runs of this instance ran
    \* WorkflowValidator
    strict_mode,        \* self.strict_mode
    errors,             \* self.errors
    warnings,           \* self.warnings
    info,               \* self.info
    definition,         \* the argument of the last validate() call
    passed,             \* the value the last validate() call returned
    calls,              \* number of validate() calls on this instance
    exit_code,          \* the argument of sys.exit at the end of main()
    \* a method applied on its own
    arg,                \* the argument
    ret                 \* the value returned

sim_vars == <<trace_id, simulated_outputs, workflow, phase, i, inputs, log, runs, earlier_traces>>
val_vars == <<strict_mode, errors, warnings, info, definition, passed, calls, exit_code>>
fun_vars == <<arg, ret>>
vars == <<sim_vars, val_vars, fun_vars>>

-----------------------------------------------------------------------------
(* Python str                                                              *)

Lowers ==
    <<"a","b","c","d","e","f","g","h","i","j","k","l","m","n","o","p","q","r","s","t","u","v","w","x","y","z">>
Uppers ==
    <<"A","B","C","D","E","F","G","H","I","J","K","L","M","N","O","P","Q","R","S","T","U","V","W","X","Y","Z">>
Digits ==
    <<"0","1","2","3","4","5","6","7","8","9">>

\* Position of character c in the sequence alphabet, 0 when it is not there.
IndexIn(c, alphabet) ==
    IF \E k \in DOMAIN alphabet : alphabet[k] = c
    THEN CHOOSE k \in DOMAIN alphabet : alphabet[k] = c
    ELSE 0

LowerSet == {Lowers[k] : k \in DOMAIN Lowers}
UpperSet == {Uppers[k] : k \in DOMAIN Uppers}
DigitSet == {Digits[k] : k \in DOMAIN Digits}

IsLower(c) == c \in LowerSet
IsUpper(c) == c \in UpperSet
IsCased(c) == IsLower(c) \/ IsUpper(c)
IsDigit(c) == c \in DigitSet
LowerChar(c) == IF IsUpper(c) THEN Lowers[IndexIn(c, Uppers)] ELSE c
UpperChar(c) == IF IsLower(c) THEN Uppers[IndexIn(c, Lowers)] ELSE c

\* str.lower(); the concatenation makes the result a tuple that is computed once
lower(s) == [k \in 1..Len(s) |-> LowerChar(s[k])] \o <<>>

\* str.title(): a cased character is upper-cased when the character before it is
\* not cased, lower-cased otherwise.
title(s) ==
    [k \in 1..Len(s) |->
        IF ~IsCased(s[k]) THEN s[k]
        ELSE IF k > 1 /\ IsCased(s[k-1]) THEN LowerChar(s[k])
        ELSE UpperChar(s[k])]

\* s[k:].startswith(p), k counted from 1
StartsAt(s, k, p) ==
    /\ k >= 1
    /\ k + Len(p) - 1 <= Len(s)
    /\ \A j \in 1..Len(p) : s[k + j - 1] = p[j]

\* p in s
Contains(p, s) == \E k \in 1..(Len(s) + 1) : StartsAt(s, k, p)

\* str(n) for an int n >= 0
RECURSIVE IntToStr(_)
IntToStr(n) ==
    IF n < 10 THEN <<Digits[n + 1]>>
    ELSE IntToStr(n \div 10) \o <<Digits[(n % 10) + 1]>>

\* Last index of the longest run of characters other than stop that starts at k
\* (k - 1 when the run is empty): what a greedy [^stop]* consumes from k.
RunEnd(s, k, stop) ==
    CHOOSE e \in (k - 1)..Len(s) :
        /\ \A j \in k..e : s[j] # stop
        /\ e = Len(s) \/ s[e + 1] = stop

-----------------------------------------------------------------------------
(* Parsed JSON values (json.load) and the dict operations the code uses     *)

JNull == [null |-> TRUE]
JBool(b) == [bool |-> b]
JNum(n) == [num |-> n]
JStr(s) == [str |-> s]
JArr(a) == [arr |-> a]
JObj(o) == [obj |-> o]

IsNull(v) == DOMAIN v = {"null"}
IsBool(v) == DOMAIN v = {"bool"}
IsNum(v) == DOMAIN v = {"num"}
IsStr(v) == DOMAIN v = {"str"}
IsArr(v) == DOMAIN v = {"arr"}
IsObj(v) == DOMAIN v = {"obj"}

EmptyObj == JObj(<<>>)
EmptyArr == JArr(<<>>)

\* key in d
HasKey(d, key) == \E k \in DOMAIN d.obj : d.obj[k][1] = key
\* d[key], for a key that is in d
Lookup(d, key) == d.obj[CHOOSE k \in DOMAIN d.obj : d.obj[k][1] = key][2]
\* d.get(key, default)
Get(d, key, default) == IF HasKey(d, key) THEN Lookup(d, key) ELSE default
\* list(d.keys())
Keys(d) == [k \in DOMAIN d.obj |-> d.obj[k][1]]

\* bool(v)
Truthy(v) ==
    IF IsNull(v) THEN FALSE
    ELSE IF IsBool(v) THEN v.bool
    ELSE IF IsNum(v) THEN v.num # 0
    ELSE IF IsStr(v) THEN v.str # <<>>
    ELSE IF IsArr(v) THEN v.arr # <<>>
    ELSE v.obj # <<>>

\* str(v) of a value held in the memo-table: a str is itself, an int is formatted
str(v) == IF IsStr(v) THEN v.str ELSE IntToStr(v.num)

-----------------------------------------------------------------------------
(* The keys and literals of the source                                     *)


-----------------------------------------------------------------------------
(* String literals, as sequences of characters                              *)

\* The keys of the dicts the code reads
K ==
    [metadata |-> <<"m","e","t","a","d","a","t","a">>,
     workflow_name |-> <<"w","o","r","k","f","l","o","w","_","n","a","m","e">>,
     workflow_id |-> <<"w","o","r","k","f","l","o","w","_","i","d">>,
     platform |-> <<"p","l","a","t","f","o","r","m">>,
     schema_version |-> <<"s","c","h","e","m","a","_","v","e","r","s","i","o","n">>,
     idempotent |-> <<"i","d","e","m","p","o","t","e","n","t">>,
     execution_config |-> <<"e","x","e","c","u","t","i","o","n","_","c","o","n","f","i","g">>,
     dry_run_supported |-> <<"d","r","y","_","r","u","n","_","s","u","p","p","o","r","t","e","d">>,
     rollback_supported |-> <<"r","o","l","l","b","a","c","k","_","s","u","p","p","o","r","t","e","d">>,
     validation |-> <<"v","a","l","i","d","a","t","i","o","n">>,
     pre_conditions |-> <<"p","r","e","_","c","o","n","d","i","t","i","o","n","s">>,
     post_conditions |-> <<"p","o","s","t","_","c","o","n","d","i","t","i","o","n","s">>,
     id |-> <<"i","d">>,
     description |-> <<"d","e","s","c","r","i","p","t","i","o","n">>,
     critical |-> <<"c","r","i","t","i","c","a","l">>,
     type |-> <<"t","y","p","e">>,
     error_message |-> <<"e","r","r","o","r","_","m","e","s","s","a","g","e">>,
     steps |-> <<"s","t","e","p","s">>,
     operation |-> <<"o","p","e","r","a","t","i","o","n">>,
     api_endpoint |-> <<"a","p","i","_","e","n","d","p","o","i","n","t">>,
     depends_on |-> <<"d","e","p","e","n","d","s","_","o","n">>,
     inputs |-> <<"i","n","p","u","t","s">>,
     outputs |-> <<"o","u","t","p","u","t","s">>,
     workflow_ref |-> <<"w","o","r","k","f","l","o","w","_","r","e","f">>,
     security |-> <<"s","e","c","u","r","i","t","y">>,
     observability |-> <<"o","b","s","e","r","v","a","b","i","l","i","t","y">>,
     documentation |-> <<"d","o","c","u","m","e","n","t","a","t","i","o","n">>,
     required |-> <<"r","e","q","u","i","r","e","d">>,
     optional |-> <<"o","p","t","i","o","n","a","l">>,
     filter |-> <<"f","i","l","t","e","r">>,
     ids |-> <<"i","d","s">>,
     q |-> <<"q">>,
     auth_required |-> <<"a","u","t","h","_","r","e","q","u","i","r","e","d">>,
     secrets_handling |-> <<"s","e","c","r","e","t","s","_","h","a","n","d","l","i","n","g">>,
     minimum_role |-> <<"m","i","n","i","m","u","m","_","r","o","l","e">>,
     rate_limit |-> <<"r","a","t","e","_","l","i","m","i","t">>,
     error_handling |-> <<"e","r","r","o","r","_","h","a","n","d","l","i","n","g">>,
     telemetry |-> <<"t","e","l","e","m","e","t","r","y">>,
     audit |-> <<"a","u","d","i","t">>,
     log_inputs |-> <<"l","o","g","_","i","n","p","u","t","s">>,
     pii_fields |-> <<"p","i","i","_","f","i","e","l","d","s">>,
     semantic_gaps |-> <<"s","e","m","a","n","t","i","c","_","g","a","p","s">>,
     api_key |-> <<"a","p","i","_","k","e","y">>,
     apiKey |-> <<"a","p","i","K","e","y">>,
     password |-> <<"p","a","s","s","w","o","r","d">>,
     access_token |-> <<"a","c","c","e","s","s","_","t","o","k","e","n">>,
     client_secret |-> <<"c","l","i","e","n","t","_","s","e","c","r","e","t">>]

\* Values that occur in the definitions and in the messages
V ==
    [query |-> <<"q","u","e","r","y">>,
     mutation |-> <<"m","u","t","a","t","i","o","n">>,
     workflow |-> <<"w","o","r","k","f","l","o","w">>,
     custom |-> <<"c","u","s","t","o","m">>,
     unknown |-> <<"u","n","k","n","o","w","n">>,
     security |-> <<"s","e","c","u","r","i","t","y">>,
     check_auth |-> <<"c","h","e","c","k","_","a","u","t","h">>,
     exists |-> <<"e","x","i","s","t","s">>,
     unique |-> <<"u","n","i","q","u","e">>,
     no_description |-> <<"N","o"," ","d","e","s","c","r","i","p","t","i","o","n">>,
     check_failed |-> <<"C","h","e","c","k"," ","f","a","i","l","e","d">>,
     step_ |-> <<"s","t","e","p","_">>,
     order_id |-> <<"o","r","d","e","r","_","i","d">>,
     customer_count |-> <<"c","u","s","t","o","m","e","r","_","c","o","u","n","t">>,
     created_date |-> <<"c","r","e","a","t","e","d","_","d","a","t","e">>,
     widget_name |-> <<"w","i","d","g","e","t","_","n","a","m","e">>,
     status |-> <<"s","t","a","t","u","s">>,
     ghost |-> <<"g","h","o","s","t">>,
     region |-> <<"r","e","g","i","o","n">>,
     quota_ok |-> <<"q","u","o","t","a","_","o","k">>,
     demo_flow |-> <<"d","e","m","o","_","f","l","o","w">>,
     rest |-> <<"r","e","s","t">>,
     orders |-> <<"/","o","r","d","e","r","s">>,
     path |-> <<"$",".","d","a","t","a">>,
     prefix |-> <<"o","r","d","e","r","=">>,
     check_done |-> <<"s","t","a","t","e"," ","i","s"," ","f","i","n","a","l">>,
     denied |-> <<"d","e","n","i","e","d">>,
     UserID |-> <<"U","s","e","r","I","D">>,
     start_time |-> <<"s","t","a","r","t","_","t","i","m","e">>,
     full_name |-> <<"f","u","l","l","_","n","a","m","e">>,
     discount |-> <<"d","i","s","c","o","u","n","t">>,
     rename_date |-> <<"r","e","n","a","m","e","_","d","a","t","e">>,
     time_count |-> <<"t","i","m","e","_","c","o","u","n","t">>,
     archive |-> <<"a","r","c","h","i","v","e">>,
     runtime_injected |-> <<"r","u","n","t","i","m","e","_","i","n","j","e","c","t","e","d">>,
     vault |-> <<"v","a","u","l","t">>,
     env_var |-> <<"e","n","v","_","v","a","r">>,
     string |-> <<"s","t","r","i","n","g">>,
     plaintext |-> <<"p","l","a","i","n","t","e","x","t">>,
     extra |-> <<"e","x","t","r","a">>,
     semver |-> <<"1",".","0",".","0">>,
     semver_short |-> <<"1",".","0">>,
     semver_v |-> <<"v","1",".","0",".","0">>,
     Demo |-> <<"D","e","m","o","F","l","o","w">>,
     digit_first |-> <<"9","l","i","v","e","s">>,
     wf_id |-> <<"w","f","-","0","0","1">>,
     viewer |-> <<"v","i","e","w","e","r">>,
     retry |-> <<"r","e","t","r","y">>,
     hunter2 |-> <<"h","u","n","t","e","r","2">>,
     integer |-> <<"i","n","t","e","g","e","r">>,
     email |-> <<"e","m","a","i","l">>,
     customer |-> <<"c","u","s","t","o","m","e","r">>,
     limit |-> <<"l","i","m","i","t">>,
     pattern |-> <<"p","a","t","t","e","r","n">>]

\* The fixed text of the templates and of the placeholders of _resolve_inputs and _simulate_outputs
T ==
    [steps_open |-> <<"{","{","s","t","e","p","s",".">>,
     outputs |-> <<".","o","u","t","p","u","t","s",".">>,
     close |-> <<"}","}">>,
     inputs_open |-> <<"{","{","i","n","p","u","t","s",".">>,
     unresolved |-> <<"<","u","n","r","e","s","o","l","v","e","d",":">>,
     input |-> <<"<","i","n","p","u","t",":">>,
     mock_ |-> <<"m","o","c","k","_">>,
     Mock |-> <<"M","o","c","k"," ">>,
     lt_mock_ |-> <<"<","m","o","c","k","_">>]

\* The words _simulate_outputs looks for in a field name and _audit_security searches
W ==
    [id |-> <<"i","d">>,
     name |-> <<"n","a","m","e">>,
     date |-> <<"d","a","t","e">>,
     time |-> <<"t","i","m","e">>,
     count |-> <<"c","o","u","n","t">>,
     password |-> <<"p","a","s","s","w","o","r","d">>,
     token |-> <<"t","o","k","e","n">>,
     api |-> <<"a","p","i">>,
     key |-> <<"k","e","y">>,
     secret |-> <<"s","e","c","r","e","t">>]

\* The literals of json.dumps
J ==
    [true |-> <<"t","r","u","e">>,
     false |-> <<"f","a","l","s","e">>,
     null |-> <<"n","u","l","l">>]

\* Texts the properties compare with
X ==
    [mock_widget_name |-> <<"M","o","c","k"," ","W","i","d","g","e","t","_","N","a","m","e">>,
     mock_status |-> <<"<","m","o","c","k","_","s","t","a","t","u","s",">">>,
     iso_shape |-> <<"0","0","0","0","-","0","0","-","0","0","T","0","0",":","0","0",":","0","0">>,
     mock_full_name |-> <<"M","o","c","k"," ","F","u","l","l","_","N","a","m","e">>,
     mock_rename_date |-> <<"M","o","c","k"," ","R","e","n","a","m","e","_","D","a","t","e">>]

Iso1 ==
    <<"2","0","2","6","-","1","1","-","0","3","T","1","7",":","3","9",":","5","7",".","1","2","3","4","5","6">>
Iso2 ==
    <<"2","0","2","7","-","0","1","-","0","1","T","0","0",":","0","0",":","0","0">>
Hex1 ==
    <<"0","a","1","b","2","c","3","d">>
Hex2 ==
    <<"f","f","e","e","d","d","c","c">>

-----------------------------------------------------------------------------
(* DryRunExecutor: the methods that compute                                 *)

\* A variant of simulate_condition whose default is that the condition fails
simulate_condition_default_fails(condition) ==
    LET cond_type == Get(condition, K.type, JStr(V.unknown))
        cond_id == Get(condition, K.id, JStr(V.unknown)).str
    IN  IF Contains(V.check_auth, cond_id) \/ cond_type = JStr(V.security) THEN TRUE
        ELSE IF Contains(V.exists, cond_id) \/ Contains(V.unique, cond_id) THEN TRUE
        ELSE FALSE

\* _simulate_condition(condition): every branch returns True
simulate_condition(condition) ==
    LET cond_type == Get(condition, K.type, JStr(V.unknown))
        cond_id == Get(condition, K.id, JStr(V.unknown)).str
    IN  IF Contains(V.check_auth, cond_id) \/ cond_type = JStr(V.security) THEN TRUE
        ELSE IF Contains(V.exists, cond_id) \/ Contains(V.unique, cond_id) THEN TRUE
        ELSE TRUE

\* One value of _simulate_outputs: the mock for output field key, with hex the
\* uuid4().hex[:8] and now the datetime.now().isoformat() drawn for it.
\* A variant of MockValue that tests 'name' before 'id'
MockValue_name_first(key, hex, now) ==
    IF Contains(W.name, lower(key)) THEN JStr(T.Mock \o title(key))
    ELSE IF Contains(W.id, lower(key)) THEN JStr(T.mock_ \o key \o <<"_">> \o hex)
    ELSE IF Contains(W.date, lower(key)) \/ Contains(W.time, lower(key)) THEN JStr(now)
    ELSE IF Contains(W.count, lower(key)) THEN JNum(42)
    ELSE JStr(T.lt_mock_ \o key \o <<">">>)

\* A variant of MockValue that tests 'count' before 'date' and 'time'
MockValue_count_first(key, hex, now) ==
    IF Contains(W.id, lower(key)) THEN JStr(T.mock_ \o key \o <<"_">> \o hex)
    ELSE IF Contains(W.name, lower(key)) THEN JStr(T.Mock \o title(key))
    ELSE IF Contains(W.count, lower(key)) THEN JNum(42)
    ELSE IF Contains(W.date, lower(key)) \/ Contains(W.time, lower(key)) THEN JStr(now)
    ELSE JStr(T.lt_mock_ \o key \o <<">">>)

MockValue(key, hex, now) ==
    IF Contains(W.id, lower(key)) THEN JStr(T.mock_ \o key \o <<"_">> \o hex)
    ELSE IF Contains(W.name, lower(key)) THEN JStr(T.Mock \o title(key))
    ELSE IF Contains(W.date, lower(key)) \/ Contains(W.time, lower(key)) THEN JStr(now)
    ELSE IF Contains(W.count, lower(key)) THEN JNum(42)
    ELSE JStr(T.lt_mock_ \o key \o <<">">>)

\* _simulate_outputs(step): the dict  output key -> mock value.  hexes and nows
\* give, per position of step['outputs'], the random hex and the clock reading.
simulate_outputs(step, hexes, nows) ==
    LET outputs == Get(step, K.outputs, EmptyObj)
        keys == Keys(outputs)
    IN  [key \in {keys[k] : k \in DOMAIN keys} |->
            LET k == CHOOSE k \in DOMAIN keys : keys[k] = key
            IN  MockValue(key, hexes[k], nows[k])]

\* A variant of replace_ref that never reads the recorded value
replace_ref_placeholder(step_id, output_key, memo) ==
    IF step_id \in DOMAIN memo
    THEN <<"<">> \o output_key \o <<">">>
    ELSE T.unresolved \o step_id \o <<".">> \o output_key \o <<">">>

\* replace_ref(match) of _resolve_inputs, for the groups (step_id, output_key)
replace_ref(step_id, output_key, memo) ==
    IF step_id \in DOMAIN memo
    THEN IF output_key \in DOMAIN memo[step_id]
         THEN str(memo[step_id][output_key])
         ELSE <<"<">> \o output_key \o <<">">>
    ELSE T.unresolved \o step_id \o <<".">> \o output_key \o <<">">>

\* A match of  \{\{steps\.([^.]+)\.outputs\.([^}]+)\}\}  that starts at k:
\* both groups are greedy runs, so the match at k is unique when there is one.
StepRefMatch(s, k) ==
    LET b1 == k + Len(T.steps_open)
        e1 == RunEnd(s, b1, ".")
        b2 == e1 + 1 + Len(T.outputs)
        e2 == IF b2 <= Len(s) + 1 THEN RunEnd(s, b2, "}") ELSE b2 - 1
        ok == /\ StartsAt(s, k, T.steps_open)
              /\ e1 >= b1
              /\ StartsAt(s, e1 + 1, T.outputs)
              /\ e2 >= b2
              /\ StartsAt(s, e2 + 1, T.close)
    IN  [ok |-> ok,
         step_id |-> IF ok THEN SubSeq(s, b1, e1) ELSE <<>>,
         output_key |-> IF ok THEN SubSeq(s, b2, e2) ELSE <<>>,
         end |-> IF ok THEN e2 + Len(T.close) ELSE k]

\* A match of  \{\{inputs\.([^}]+)\}\}  that starts at k
InputRefMatch(s, k) ==
    LET b1 == k + Len(T.inputs_open)
        e1 == IF b1 <= Len(s) + 1 THEN RunEnd(s, b1, "}") ELSE b1 - 1
        ok == /\ StartsAt(s, k, T.inputs_open)
              /\ e1 >= b1
              /\ StartsAt(s, e1 + 1, T.close)
    IN  [ok |-> ok,
         name |-> IF ok THEN SubSeq(s, b1, e1) ELSE <<>>,
         end |-> IF ok THEN e1 + Len(T.close) ELSE k]

\* re.sub(step-reference pattern, replace_ref, s) from position k on
RECURSIVE SubStepRefs(_, _, _)
SubStepRefs(s, k, memo) ==
    IF k > Len(s) THEN <<>>
    ELSE LET m == StepRefMatch(s, k)
         IN  IF m.ok
             THEN replace_ref(m.step_id, m.output_key, memo) \o SubStepRefs(s, m.end + 1, memo)
             ELSE <<s[k]>> \o SubStepRefs(s, k + 1, memo)

\* re.sub(input-reference pattern, r'<input:\1>', s) from position k on
RECURSIVE SubInputRefs(_, _)
SubInputRefs(s, k) ==
    IF k > Len(s) THEN <<>>
    ELSE LET m == InputRefMatch(s, k)
         IN  IF m.ok
             THEN T.input \o m.name \o <<">">> \o SubInputRefs(s, m.end + 1)
             ELSE <<s[k]>> \o SubInputRefs(s, k + 1)

\* _resolve_inputs on a str
resolve_str(s, memo) == SubInputRefs(SubStepRefs(s, 1, memo), 1)

\* _resolve_inputs(inputs): dicts and lists are walked, strs are resolved,
\* every other value is returned as it is
RECURSIVE resolve_inputs(_, _)
resolve_inputs(v, memo) ==
    IF IsObj(v)
    THEN JObj([k \in DOMAIN v.obj |-> <<v.obj[k][1], resolve_inputs(v.obj[k][2], memo)>>])
    ELSE IF IsArr(v)
    THEN JArr([k \in DOMAIN v.arr |-> resolve_inputs(v.arr[k], memo)])
    ELSE IF IsStr(v)
    THEN JStr(resolve_str(v.str, memo))
    ELSE v

\* A variant of IsCritical whose default is False: condition.get('critical', False)
IsCritical_default_false(condition) == Truthy(Get(condition, K.critical, JBool(FALSE)))

\* critical = condition.get('critical', True), read by  if critical:
IsCritical(condition) == Truthy(Get(condition, K.critical, JBool(TRUE)))

\* workflow.get('validation', {}).get(which, [])
Conditions(wf, which) == Get(Get(wf, K.validation, EmptyObj), which, EmptyArr).arr

\* all_passed of _check_pre_conditions, with verdict[k] the value
\* _simulate_condition returned for the k-th pre-condition
pre_conditions_passed(pre_conditions, verdict) ==
    \A k \in DOMAIN pre_conditions : verdict[k] \/ ~IsCritical(pre_conditions[k])

\* What _check_pre_conditions prints
pre_conditions_events(pre_conditions, verdict) ==
    IF pre_conditions = <<>> THEN <<[kind |-> "no_pre_conditions"]>>
    ELSE [k \in DOMAIN pre_conditions |->
            [kind |-> IF verdict[k] THEN "pre_passed" ELSE "pre_failed", n |-> k,
             id |-> Get(pre_conditions[k], K.id, JStr(V.unknown)),
             critical |-> IsCritical(pre_conditions[k]),
             message |-> Get(pre_conditions[k], K.error_message, JStr(V.check_failed))]]
         \o (IF pre_conditions_passed(pre_conditions, verdict) THEN <<>>
             ELSE <<[kind |-> "abort", phase |-> "PRECONDITIONS"]>>)

\* What _check_post_conditions prints: every post-condition as skipped
post_conditions_events(post_conditions) ==
    IF post_conditions = <<>> THEN <<[kind |-> "no_post_conditions"]>>
    ELSE [k \in DOMAIN post_conditions |->
            [kind |-> "post_skipped", n |-> k,
             id |-> Get(post_conditions[k], K.id, JStr(V.unknown)),
             description |-> Get(post_conditions[k], K.description, JStr(V.no_description))]]

\* A variant of post_conditions_passed that verifies: a declared post-condition fails
post_conditions_verified(post_conditions) == post_conditions = <<>>

\* all_passed of _check_post_conditions: set to True and never changed
post_conditions_passed(post_conditions) == TRUE

\* workflow.get('steps', [])
Steps(wf) == Get(wf, K.steps, EmptyArr).arr

\* A variant of FirstUnsatisfied without the dependency loop
FirstUnsatisfied_skipped(step, memo) == 0

\* A variant of FirstUnsatisfied that lets a step depend on itself
FirstUnsatisfied_self_allowed(step, memo) ==
    LET depends_on == Get(step, K.depends_on, EmptyArr).arr
        missing == {k \in DOMAIN depends_on :
                        /\ depends_on[k].str \notin DOMAIN memo
                        /\ depends_on[k] # Get(step, K.id, JNull)}
    IN  IF missing = {} THEN 0
        ELSE CHOOSE k \in missing : \A j \in missing : k <= j

\* The dependency loop of _execute_steps: position in depends_on of the first
\* entry that is not a key of the memo-table, 0 when every entry is one.
FirstUnsatisfied(step, memo) ==
    LET depends_on == Get(step, K.depends_on, EmptyArr).arr
        missing == {k \in DOMAIN depends_on : depends_on[k].str \notin DOMAIN memo}
    IN  IF missing = {} THEN 0
        ELSE CHOOSE k \in missing : \A j \in missing : k <= j

\* Whether _simulate_step stores outputs for the operation: the query and the
\* mutation branch do, the workflow branch and the missing else branch do not.
RecordsOutputs(operation) == operation = JStr(V.query) \/ operation = JStr(V.mutation)

\* A variant of simulate_step that stores outputs whatever the operation
simulate_step_any_operation(step, memo, hexes, nows) ==
    (Get(step, K.id, JStr(V.unknown)).str :> simulate_outputs(step, hexes, nows)) @@ memo

\* self.simulated_outputs after _simulate_step(step)
simulate_step(step, memo, hexes, nows) ==
    LET step_id == Get(step, K.id, JStr(V.unknown)).str
        operation == Get(step, K.operation, JStr(V.unknown))
    IN  IF RecordsOutputs(operation)
        THEN (step_id :> simulate_outputs(step, hexes, nows)) @@ memo
        ELSE memo

\* What one iteration of the loop of _execute_steps prints before the dependency check
step_event(step, n) ==
    [kind |-> "step", n |-> n,
     id |-> Get(step, K.id, JStr(V.step_ \o IntToStr(n))),
     operation |-> Get(step, K.operation, JStr(V.unknown))]

\* What _simulate_step prints for the operation
operation_events(step, memo) ==
    LET step_id == Get(step, K.id, JStr(V.unknown)).str
        operation == Get(step, K.operation, JStr(V.unknown))
    IN  IF operation = JStr(V.query) THEN <<[kind |-> "query_executed", outputs |-> memo[step_id]]>>
        ELSE IF operation = JStr(V.mutation) THEN <<[kind |-> "mutation_skipped", outputs |-> memo[step_id]]>>
        ELSE IF operation = JStr(V.workflow)
        THEN <<[kind |-> "sub_workflow_skipped", ref |-> Get(step, K.workflow_ref, JStr(V.unknown))]>>
        ELSE <<>>

\* Whether lines 36-37 of execute find workflow['metadata']['workflow_name'] and
\* workflow['metadata']['platform']; a KeyError leaves execute otherwise.
HeaderKeysPresent(wf) ==
    /\ HasKey(wf, K.metadata)
    /\ HasKey(Lookup(wf, K.metadata), K.workflow_name)
    /\ HasKey(Lookup(wf, K.metadata), K.platform)

\* workflow.get('execution_config', {}).get('dry_run_supported')
DryRunSupported(wf) ==
    Truthy(Get(Get(wf, K.execution_config, EmptyObj), K.dry_run_supported, JNull))

-----------------------------------------------------------------------------
(* The definitions the runs are given                                      *)

\* Longest step list; longest list of pre-conditions and of post-conditions
MaxSteps == 3
MaxConds == 2
\* Most execute() calls on one instance
MaxRuns == 2

\* What uuid4().hex[:8] and datetime.now().isoformat() may return
HexSamples == {Hex1, Hex2}
IsoSamples == {Iso1, Iso2}
\* What str(uuid.uuid4()) may return in __init__
TraceSamples == {Hex1, Hex2}

Absent == [absent |-> TRUE]
\* A key of a dict under construction, left out when its value is Absent
Opt(key, v) == IF v = Absent THEN <<>> ELSE << <<key, v>> >>

\* The id of the step declared at position k: a, b, c, ...
StepId(k) == <<Lowers[k]>>

MkStep(id, operation, depends_on, ins, outs) ==
    JObj(Opt(K.id, id) \o Opt(K.operation, operation) \o Opt(K.api_endpoint, JStr(V.orders))
         \o Opt(K.depends_on, depends_on) \o Opt(K.inputs, ins) \o Opt(K.outputs, outs))

MkCondition(id, critical) ==
    JObj(Opt(K.id, JStr(id)) \o Opt(K.description, JStr(V.check_done))
         \o Opt(K.critical, critical) \o Opt(K.error_message, JStr(V.denied)))

MkDefinition(metadata, execution_config, pre_conditions, post_conditions, steps) ==
    JObj(Opt(K.metadata, metadata) \o Opt(K.execution_config, execution_config)
         \o Opt(K.validation,
                IF pre_conditions = Absent /\ post_conditions = Absent THEN Absent
                ELSE JObj(Opt(K.pre_conditions, pre_conditions)
                          \o Opt(K.post_conditions, post_conditions)))
         \o Opt(K.steps, steps))

FullMetadata ==
    JObj(<< <<K.workflow_name, JStr(V.demo_flow)>>, <<K.platform, JStr(V.rest)>> >>)
MetadataVariants ==
    {Absent, FullMetadata,
     JObj(<< <<K.workflow_name, JStr(V.demo_flow)>> >>),
     JObj(<< <<K.platform, JStr(V.rest)>> >>)}
ExecutionConfigVariants ==
    {Absent, JObj(<< <<K.dry_run_supported, JBool(TRUE)>> >>),
     JObj(<< <<K.dry_run_supported, JBool(FALSE)>> >>)}

PlainStep == MkStep(JStr(StepId(1)), JStr(V.query), Absent, Absent, Absent)

\* All sequences over pool of length at most n
RECURSIVE SeqsUpTo(_, _)
SeqsUpTo(pool, n) ==
    IF n = 0 THEN {<<>>}
    ELSE {<<>>} \cup {<<x>> \o rest : x \in pool, rest \in SeqsUpTo(pool, n - 1)}

ConditionPool ==
    {MkCondition(id, critical) :
        id \in {V.check_auth, V.quota_ok}, critical \in {Absent, JBool(TRUE), JBool(FALSE)}}
    \cup {JObj(<< <<K.type, JStr(V.security)>> >>),
           JObj(<< <<K.id, JStr(V.unique)>>, <<K.type, JStr(V.custom)>>, <<K.critical, JBool(TRUE)>> >>)}
PostConditionPool ==
    {MkCondition(V.quota_ok, Absent),
     JObj(<< <<K.id, JStr(V.exists)>> >>)}

\* A definition of one plain step with the given metadata and execution_config
HeaderDefinition(metadata, execution_config) ==
    MkDefinition(metadata, execution_config, Absent, Absent, JArr(<<PlainStep>>))

\* A definition of one plain step with the given pre- and post-conditions
ConditionDefinition(pre, post) ==
    MkDefinition(FullMetadata, Absent, JArr(pre), JArr(post), JArr(<<PlainStep>>))

ConditionLists == SeqsUpTo(ConditionPool, MaxConds)
PostConditionLists == SeqsUpTo(PostConditionPool, MaxConds)

Operations == {JStr(V.query), JStr(V.mutation), JStr(V.workflow), JStr(V.custom)}

\* depends_on of the step at position k of n: none, the step declared before
\* it or the step declared after it (around the ends of the list)
DependsOnKinds == {"none", "previous", "next"}
DependsOn(kind, k, n) ==
    IF kind = "none" THEN Absent
    ELSE IF kind = "previous" THEN JArr(<<JStr(StepId(IF k = 1 THEN n ELSE k - 1))>>)
    ELSE JArr(<<JStr(StepId(IF k = n THEN 1 ELSE k + 1))>>)

\* The list of n steps with operation shape[k][1] and dependency shape[k][2]
\* at position k
DependencyStepList(n, shape) ==
    [k \in 1..n |-> MkStep(JStr(StepId(k)), shape[k][1], DependsOn(shape[k][2], k, n),
                           Absent, Absent)]

\* A definition of two query steps, whose dependencies have the given shape,
\* with one pre-condition
GuardedDefinition(condition, shape) ==
    MkDefinition(FullMetadata, Absent, JArr(<<condition>>), Absent,
                 JArr(DependencyStepList(2, [k \in 1..2 |-> <<JStr(V.query), shape[k]>>])))

Template(step_id, key) == T.steps_open \o step_id \o T.outputs \o key \o T.close

OutputsVariants ==
    {Absent, EmptyObj,
     JObj(<< <<V.order_id, JStr(V.path)>> >>),
     JObj(<< <<V.customer_count, JStr(V.path)>> >>),
     JObj(<< <<V.order_id, JStr(V.path)>>, <<V.created_date, JStr(V.path)>> >>)}

InputsVariants ==
    {Absent,
     JObj(<< <<K.id, JStr(Template(StepId(1), V.order_id))>> >>),
     JObj(<< <<K.id, JStr(Template(StepId(1), V.customer_count))>> >>),
     JObj(<< <<K.id, JStr(Template(V.ghost, V.order_id))>> >>),
     JObj(<< <<K.q, JStr(T.inputs_open \o V.region \o T.close)>> >>),
     JObj(<< <<K.q, JStr(V.prefix \o Template(StepId(1), V.order_id) \o <<"!">>)>> >>),
     JObj(<< <<K.filter, JObj(<< <<K.ids, JArr(<<JStr(Template(StepId(1), V.order_id)), JNum(7)>>)>> >>)>> >>)}

\* Two-step lists that differ in the operation and the outputs of the first
\* step, which may have no operation or one the executor does not know, and in
\* the inputs of the second
DataStepLists ==
    {<<MkStep(JStr(StepId(1)), op1, Absent, Absent, outs),
       MkStep(JStr(StepId(2)), op2, deps, ins, Absent)>> :
        op1 \in Operations \cup {Absent, JStr(V.archive)}, outs \in OutputsVariants,
        op2 \in {JStr(V.query), JStr(V.mutation)},
        deps \in {Absent, JArr(<<JStr(StepId(1))>>)}, ins \in InputsVariants}

StepDefinition(steps) ==
    MkDefinition(FullMetadata, JObj(<< <<K.dry_run_supported, JBool(TRUE)>> >>),
                 Absent, Absent, JArr(steps))

-----------------------------------------------------------------------------
(* DryRunExecutor: the state machine of execute()                           *)

NoWorkflow == JNull
Terminal == {"DONE", "ABORTED", "RAISED"}

\* A WorkflowValidator that was constructed and not used
ValidatorFresh ==
    /\ errors = <<>>
    /\ warnings = <<>>
    /\ info = <<>>
    /\ definition = JNull
    /\ passed = JNull
    /\ calls = 0
    /\ exit_code = JNull

\* __init__: a fresh trace id, an empty memo-table; execute() not yet called
ExecutorInit ==
    /\ trace_id \in TraceSamples
    /\ simulated_outputs = <<>>
    /\ workflow = NoWorkflow
    /\ phase = "INIT"
    /\ i = 0
    /\ inputs = <<>>
    /\ log = <<>>
    /\ runs = 0
    /\ earlier_traces = {}

Init ==
    /\ ExecutorInit
    /\ strict_mode = FALSE
    /\ ValidatorFresh
    /\ arg = JNull
    /\ ret = JNull

\* execute(wf) up to the pre-conditions (lines 32-42)
ExecuteCall(wf) ==
    /\ workflow' = wf
    /\ runs' = runs + 1
    /\ earlier_traces' = IF runs = 0 THEN {} ELSE earlier_traces \cup {trace_id}
    /\ i' = 0
    /\ inputs' = <<>>
    /\ IF HeaderKeysPresent(wf)
       THEN /\ phase' = "PRECONDITIONS"
            /\ log' = <<[kind |-> "dry_run", trace |-> trace_id]>>
                      \o (IF DryRunSupported(wf) THEN <<>>
                          ELSE <<[kind |-> "warning_no_dry_run_support"]>>)
       ELSE /\ phase' = "RAISED"
            /\ log' = <<[kind |-> "dry_run", trace |-> trace_id], [kind |-> "KeyError"]>>
    /\ UNCHANGED <<trace_id, simulated_outputs>>

\* The first execute() call on the instance
Execute ==
    /\ phase = "INIT"
    /\ \/ \E metadata \in MetadataVariants, execution_config \in ExecutionConfigVariants :
            ExecuteCall(HeaderDefinition(metadata, execution_config))
       \/ \E pre \in ConditionLists, post \in PostConditionLists :
            ExecuteCall(ConditionDefinition(pre, post))
       \/ \E n \in 0..MaxSteps : \E shape \in [1..n -> Operations \X DependsOnKinds] :
            ExecuteCall(StepDefinition(DependencyStepList(n, shape)))
       \/ \E steps \in DataStepLists :
            ExecuteCall(StepDefinition(steps))
       \/ \E condition \in ConditionPool, shape \in [1..2 -> DependsOnKinds] :
            ExecuteCall(GuardedDefinition(condition, shape))
    /\ UNCHANGED <<val_vars, fun_vars>>

\* _check_pre_conditions (lines 44-46, 62-101), with verdict[k] the value
\* _simulate_condition returns for the k-th pre-condition
PreConditionsWith(verdict) ==
    /\ phase = "PRECONDITIONS"
    /\ LET pre_conditions == Conditions(workflow, K.pre_conditions)
       IN  /\ log' = log \o pre_conditions_events(pre_conditions, verdict)
           /\ phase' = IF pre_conditions_passed(pre_conditions, verdict)
                       THEN "STEPS" ELSE "ABORTED"
    /\ UNCHANGED <<trace_id, simulated_outputs, workflow, i, inputs, runs, earlier_traces>>

CheckPreConditions ==
    /\ phase = "PRECONDITIONS"
    /\ PreConditionsWith([k \in DOMAIN Conditions(workflow, K.pre_conditions) |->
                            simulate_condition(Conditions(workflow, K.pre_conditions)[k])])
    /\ UNCHANGED <<val_vars, fun_vars>>

\* One iteration of the loop of _execute_steps (lines 129-156), _simulate_step included
ExecuteStep ==
    /\ phase = "STEPS"
    /\ i < Len(Steps(workflow))
    /\ LET step == Steps(workflow)[i + 1]
           bad == FirstUnsatisfied(step, simulated_outputs)
           n == Len(Keys(Get(step, K.outputs, EmptyObj)))
       IN  IF bad # 0
           THEN /\ phase' = "ABORTED"
                /\ log' = log \o <<step_event(step, i + 1),
                                   [kind |-> "dependency_not_satisfied", n |-> i + 1,
                                    dep |-> Get(step, K.depends_on, EmptyArr).arr[bad]]>>
                /\ UNCHANGED <<simulated_outputs, i, inputs>>
           ELSE \E hexes \in [1..n -> HexSamples], nows \in [1..n -> IsoSamples] :
                /\ simulated_outputs' = simulate_step(step, simulated_outputs, hexes, nows)
                /\ inputs' = Append(inputs,
                                resolve_inputs(Get(step, K.inputs, EmptyObj), simulated_outputs))
                /\ log' = log \o <<step_event(step, i + 1)>>
                              \o operation_events(step, simulated_outputs')
                /\ i' = i + 1
                /\ phase' = phase
    /\ UNCHANGED <<trace_id, workflow, runs, earlier_traces>>
    /\ UNCHANGED <<val_vars, fun_vars>>

\* The loop of _execute_steps is exhausted: return True (lines 158, 49-50)
StepsDone ==
    /\ phase = "STEPS"
    /\ i = Len(Steps(workflow))
    /\ phase' = "POSTCONDITIONS"
    /\ UNCHANGED <<trace_id, simulated_outputs, workflow, i, inputs, log, runs, earlier_traces>>
    /\ UNCHANGED <<val_vars, fun_vars>>

\* _check_post_conditions and the end of execute (lines 52-60, 256-282)
CheckPostConditions ==
    /\ phase = "POSTCONDITIONS"
    /\ LET post_conditions == Conditions(workflow, K.post_conditions)
       IN  /\ log' = log \o post_conditions_events(post_conditions)
                         \o (IF post_conditions_passed(post_conditions)
                             THEN <<[kind |-> "completed"]>> ELSE <<>>)
           /\ phase' = IF post_conditions_passed(post_conditions) THEN "DONE" ELSE "ABORTED"
    /\ UNCHANGED <<trace_id, simulated_outputs, workflow, i, inputs, runs, earlier_traces>>
    /\ UNCHANGED <<val_vars, fun_vars>>

Next ==
    \/ Execute
    \/ CheckPreConditions
    \/ ExecuteStep
    \/ StepsDone
    \/ CheckPostConditions

\* One DryRunExecutor, one run: what main() of dry_run_executor.py does
Spec == Init /\ [][Next]_vars

\* Another execute() call on the same instance, after an earlier one ended
ExecuteAgain ==
    /\ phase \in Terminal
    /\ runs < MaxRuns
    /\ \/ \E n \in 0..2 : \E shape \in [1..n -> Operations \X DependsOnKinds] :
            ExecuteCall(StepDefinition(DependencyStepList(n, shape)))
       \/ \E steps \in DataStepLists :
            ExecuteCall(StepDefinition(steps))
       \/ \E metadata \in MetadataVariants :
            ExecuteCall(HeaderDefinition(metadata, Absent))
    /\ UNCHANGED <<val_vars, fun_vars>>

\* The first execute() call of an instance that will be used again
ExecuteFirst ==
    /\ phase = "INIT"
    /\ \/ \E n \in 0..2 : \E shape \in [1..n -> Operations \X DependsOnKinds] :
            ExecuteCall(StepDefinition(DependencyStepList(n, shape)))
       \/ \E steps \in DataStepLists :
            ExecuteCall(StepDefinition(steps))
       \/ \E metadata \in MetadataVariants :
            ExecuteCall(HeaderDefinition(metadata, Absent))
    /\ UNCHANGED <<val_vars, fun_vars>>

NextReuse ==
    \/ ExecuteFirst
    \/ ExecuteAgain
    \/ CheckPreConditions
    \/ ExecuteStep
    \/ StepsDone
    \/ CheckPostConditions

\* One DryRunExecutor whose execute() is called up to MaxRuns times
ReuseSpec == Init /\ [][NextReuse]_vars

\* _check_pre_conditions with a condition evaluator whose verdicts are arbitrary
CheckPreConditionsAnyVerdict ==
    /\ phase = "PRECONDITIONS"
    /\ \E verdict \in [DOMAIN Conditions(workflow, K.pre_conditions) -> BOOLEAN] :
            PreConditionsWith(verdict)
    /\ UNCHANGED <<val_vars, fun_vars>>

NextAnyVerdict ==
    \/ Execute
    \/ CheckPreConditionsAnyVerdict
    \/ ExecuteStep
    \/ StepsDone
    \/ CheckPostConditions

\* One run, the verdicts of the condition evaluator left open
AnyVerdictSpec == Init /\ [][NextAnyVerdict]_vars

-----------------------------------------------------------------------------
(* _simulate_outputs applied on its own                                     *)

\* Most output fields one step declares
MaxOutputs == 2

OutputKeyPool ==
    {V.order_id, V.customer_count, V.created_date, V.widget_name, V.status,
     V.UserID, V.start_time, V.full_name, V.discount, V.rename_date, V.time_count}

\* The lists of at most n different keys of pool
RECURSIVE DistinctSeqs(_, _)
DistinctSeqs(pool, n) ==
    IF n = 0 THEN {<<>>}
    ELSE {<<>>} \cup UNION {{<<key>> \o rest : rest \in DistinctSeqs(pool \ {key}, n - 1)} :
                              key \in pool}

\* The steps that declare the output fields keys
OutputsStep(keys) ==
    MkStep(JStr(StepId(1)), JStr(V.query), Absent, Absent,
           JObj([k \in DOMAIN keys |-> <<keys[k], JStr(V.path)>>]))

InitOutputs ==
    /\ ExecutorInit
    /\ strict_mode = FALSE
    /\ ValidatorFresh
    /\ arg \in {OutputsStep(keys) : keys \in DistinctSeqs(OutputKeyPool, MaxOutputs)}
    /\ ret = JNull

\* self._simulate_outputs(step)
SimulateOutputs ==
    /\ ret = JNull
    /\ \E hexes \in [DOMAIN Keys(Get(arg, K.outputs, EmptyObj)) -> HexSamples],
          nows \in [DOMAIN Keys(Get(arg, K.outputs, EmptyObj)) -> IsoSamples] :
            ret' = [value |-> simulate_outputs(arg, hexes, nows)]
    /\ UNCHANGED <<arg, sim_vars, val_vars>>

NextOutputs == SimulateOutputs

OutputsSpec == InitOutputs /\ [][NextOutputs]_vars

-----------------------------------------------------------------------------
(* Properties of DryRunExecutor                                             *)

\* The step list, the ids and the conditions of the definition being executed
DeclaredSteps == IF phase = "INIT" THEN <<>> ELSE Steps(workflow)
DeclaredId(k) == Get(DeclaredSteps[k], K.id, Absent)
DeclaredDependsOn(k) == Get(DeclaredSteps[k], K.depends_on, EmptyArr).arr
DeclaredPreConditions == IF phase = "INIT" THEN <<>> ELSE Conditions(workflow, K.pre_conditions)
DeclaredPostConditions == IF phase = "INIT" THEN <<>> ELSE Conditions(workflow, K.post_conditions)
LastEvent == log[Len(log)]

\* The run was aborted by the dependency check of _execute_steps
DependencyFault == phase = "ABORTED" /\ LastEvent.kind = "dependency_not_satisfied"

\* The run was aborted by _check_pre_conditions
PreConditionFault ==
    phase = "ABORTED" /\ LastEvent = [kind |-> "abort", phase |-> "PRECONDITIONS"]

\* Step k depends on an id that only a later step declares
ForwardReference(k) ==
    \E d \in DOMAIN DeclaredDependsOn(k) :
        /\ \E j \in (k + 1)..Len(DeclaredSteps) : DeclaredId(j) = DeclaredDependsOn(k)[d]
        /\ \A j \in 1..k : DeclaredId(j) # DeclaredDependsOn(k)[d]

\* The ids of the steps before step k
IdsBefore(k) == {DeclaredId(j).str : j \in 1..(k - 1)}

(* C2 as stated: a run over a definition in which step k depends on an id that
   only a later step declares aborts in STEPS at step k exactly, and neither
   step k nor a later step is simulated or recorded. *)
C2_AbortsAtThatStep ==
    \A k \in DOMAIN DeclaredSteps :
        ForwardReference(k) /\ phase \in {"DONE", "ABORTED"}
            => /\ DependencyFault
               /\ LastEvent.n = k
               /\ Len(inputs) < k
               /\ DOMAIN simulated_outputs \subseteq IdsBefore(k)

(* C2 amended: when step k depends on an id that only a later step declares,
   the run never gets past STEPS; it aborts at the first step that has an
   unsatisfied dependency, which is step k or a step before it, and neither
   step k nor a later step is ever simulated or recorded. *)
C2_AbortsAtOrBeforeThatStep ==
    \A k \in DOMAIN DeclaredSteps :
        ForwardReference(k)
            => /\ phase \notin {"POSTCONDITIONS", "DONE"}
               /\ Len(inputs) < k
               /\ DOMAIN simulated_outputs \subseteq IdsBefore(k)
               /\ phase = "ABORTED"
                    => /\ DependencyFault
                       /\ LastEvent.n <= k
                       /\ LastEvent.n = Len(inputs) + 1

\* A run aborted at a step with a forward reference, after an earlier step was simulated
C2_Witness ==
    /\ DependencyFault
    /\ LastEvent.n = 2
    /\ ForwardReference(2)
    /\ Len(inputs) = 1

(* C3 as stated: every step the loop has processed has an entry in the
   memo-table under its id, whatever its operation, so that a dependency on an
   earlier step is never reported as unsatisfied. *)
C3_ProcessedStepsAreRecorded ==
    /\ \A k \in 1..Len(inputs) :
            DeclaredId(k) # Absent => DeclaredId(k).str \in DOMAIN simulated_outputs
    /\ DependencyFault => \A j \in 1..(LastEvent.n - 1) : DeclaredId(j) # LastEvent.dep

\* The definitions  a (query, output f),  b (mutation, depends_on a, inputs.id = {{steps.a.outputs.f}})
ReferencedFields == {V.order_id, V.customer_count}

TwoStepFlow(f) ==
    /\ phase # "INIT"
    /\ Len(DeclaredSteps) = 2
    /\ DeclaredId(1) = JStr(StepId(1))
    /\ DeclaredId(2) = JStr(StepId(2))
    /\ Get(DeclaredSteps[1], K.operation, Absent) = JStr(V.query)
    /\ Get(DeclaredSteps[2], K.operation, Absent) = JStr(V.mutation)
    /\ Keys(Get(DeclaredSteps[1], K.outputs, EmptyObj)) = <<f>>
    /\ Get(DeclaredSteps[1], K.depends_on, EmptyArr) = EmptyArr
    /\ Get(DeclaredSteps[2], K.depends_on, EmptyArr) = JArr(<<JStr(StepId(1))>>)
    /\ Get(Get(DeclaredSteps[2], K.inputs, EmptyObj), K.id, Absent) = JStr(Template(StepId(1), f))

\* mock_<key>_ followed by eight hexadecimal digits
IsMockId(v, key) ==
    /\ IsStr(v)
    /\ Len(v.str) = Len(T.mock_ \o key) + 9
    /\ SubSeq(v.str, 1, Len(T.mock_ \o key) + 1) = T.mock_ \o key \o <<"_">>
    /\ \A k \in (Len(T.mock_ \o key) + 2)..Len(v.str) :
            IsDigit(v.str[k]) \/ v.str[k] \in {"a", "b", "c", "d", "e", "f"}

PhaseEdge ==
    \/ phase = "INIT" /\ phase' = "PRECONDITIONS"
    \/ phase = "PRECONDITIONS" /\ phase' \in {"STEPS", "ABORTED"}
    \/ phase = "STEPS" /\ phase' = "STEPS" /\ i' = i + 1
    \/ phase = "STEPS" /\ phase' = "POSTCONDITIONS" /\ i = Len(DeclaredSteps)
    \/ phase = "STEPS" /\ phase' = "ABORTED"
    \/ phase = "POSTCONDITIONS" /\ phase' \in {"DONE", "ABORTED"}

(* C5 as stated: every execute() call goes through INIT, PRECONDITIONS, a loop
   over the steps in declared order, POSTCONDITIONS, and ends in DONE or
   ABORTED: each step of the run is one of the transitions of PhaseEdge, and a
   run that has ended is in DONE or in ABORTED. *)
C5_PhaseOrder == [][PhaseEdge]_vars

\* What holds of C5: once PRECONDITIONS is entered the phases follow PhaseEdge
PhaseOrderAfterHeader == [][phase # "INIT" => PhaseEdge]_vars

(* C6 as stated: whenever execute() enters PRECONDITIONS the memo-table is
   empty and the trace id differs from the trace id of every earlier run, on
   a second call on the same instance as well. *)
C6_RunStartsFresh ==
    phase = "PRECONDITIONS" => simulated_outputs = <<>> /\ trace_id \notin earlier_traces

\* The flag of a condition as the definition states it: true when absent
CriticalFlag(condition) ==
    IF HasKey(condition, K.critical) THEN Lookup(condition, K.critical) = JBool(TRUE) ELSE TRUE

\* The k-th pre-condition was reported as failed
ReportedFailed(k) == \E e \in DOMAIN log : log[e].kind = "pre_failed" /\ log[e].n = k

(* C7: whatever the verdicts of the pre-conditions, the run is aborted in
   PRECONDITIONS exactly when some pre-condition that failed is critical, a
   missing critical key counting as true; the abort happens before any step is
   looked at. *)
C7_AbortIffCriticalFailure ==
    phase \in {"STEPS", "POSTCONDITIONS", "DONE", "ABORTED"}
        => /\ PreConditionFault
                <=> \E k \in DOMAIN DeclaredPreConditions :
                        ReportedFailed(k) /\ CriticalFlag(DeclaredPreConditions[k])
           /\ PreConditionFault
                => /\ i = 0 /\ inputs = <<>> /\ simulated_outputs = <<>>
                   /\ \A e \in DOMAIN log : log[e].kind # "step"

\* An abort caused by a failed pre-condition that has no critical key
C7_Witness ==
    /\ PreConditionFault
    /\ \E k \in DOMAIN DeclaredPreConditions :
            ReportedFailed(k) /\ ~HasKey(DeclaredPreConditions[k], K.critical)
    /\ \A k \in DOMAIN DeclaredPreConditions :
            ReportedFailed(k) => ~HasKey(DeclaredPreConditions[k], K.critical)

\* The post-conditions reported as skipped, in the order reported
SkippedPostConditions ==
    SelectSeq(log, LAMBDA e : e.kind = "post_skipped")

(* C8: POSTCONDITIONS never aborts. A run that is in POSTCONDITIONS can go on,
   an aborted run was aborted in PRECONDITIONS or in STEPS, and a run that is
   DONE reported every declared post-condition as skipped, once, in declared
   order. *)
C8_PostConditionsNeverAbort ==
    /\ phase = "POSTCONDITIONS" => ENABLED CheckPostConditions
    /\ phase = "ABORTED" => PreConditionFault \/ DependencyFault
    /\ phase = "DONE"
        => /\ Len(SkippedPostConditions) = Len(DeclaredPostConditions)
           /\ \A k \in DOMAIN DeclaredPostConditions :
                /\ SkippedPostConditions[k].n = k
                /\ SkippedPostConditions[k].id
                     = Get(DeclaredPostConditions[k], K.id, JStr(V.unknown))
           /\ LastEvent = [kind |-> "completed"]

\* A run that is DONE over a definition with two different post-conditions
C8_Witness ==
    /\ phase = "DONE"
    /\ Len(DeclaredPostConditions) >= 2
    /\ DeclaredPostConditions[1] # DeclaredPostConditions[2]

-----------------------------------------------------------------------------
(* Properties of _simulate_outputs                                          *)

\* YYYY-MM-DDTHH:MM:SS, with or without six digits of microseconds:
\* what datetime.isoformat() produces
IsIso8601(s) ==
    /\ Len(s) \in {Len(X.iso_shape), Len(X.iso_shape) + 7}
    /\ \A k \in DOMAIN X.iso_shape :
            IF X.iso_shape[k] = "0" THEN IsDigit(s[k]) ELSE s[k] = X.iso_shape[k]
    /\ Len(s) > Len(X.iso_shape)
        => /\ s[Len(X.iso_shape) + 1] = "."
           /\ \A k \in (Len(X.iso_shape) + 2)..Len(s) : IsDigit(s[k])

\* The value synthesised for the output field key, when the step declares it
Synthesised(key) == ret.value[key]
Declares(key) == ret # JNull /\ key \in DOMAIN ret.value

(* C1 as stated: _simulate_outputs maps customer_count to the integer 42,
   created_date to an ISO-8601 timestamp string, widget_name to the string
   'Mock Widget_Name' and status to the string '<mock_status>'. *)
C1_NamedFields ==
    /\ Declares(V.customer_count) => Synthesised(V.customer_count) = JNum(42)
    /\ Declares(V.created_date)
        => IsStr(Synthesised(V.created_date)) /\ IsIso8601(Synthesised(V.created_date).str)
    /\ Declares(V.widget_name) => Synthesised(V.widget_name) = JStr(X.mock_widget_name)
    /\ Declares(V.status) => Synthesised(V.status) = JStr(X.mock_status)

(* C1 amended: _simulate_outputs maps customer_count to the integer 42,
   created_date to an ISO-8601 timestamp string and status to the string
   '<mock_status>'; widget_name contains 'id' (w-id-get), which is tested
   before 'name', so it maps to mock_widget_name_ followed by eight hexadecimal
   digits, as order_id maps to mock_order_id_ and eight digits. A key that
   contains 'name' and not 'id' maps to 'Mock ' and its title-cased form. *)
C1_NamedFieldsIdFirst ==
    /\ Declares(V.customer_count) => Synthesised(V.customer_count) = JNum(42)
    /\ Declares(V.created_date)
        => IsStr(Synthesised(V.created_date)) /\ IsIso8601(Synthesised(V.created_date).str)
    /\ Declares(V.widget_name) => IsMockId(Synthesised(V.widget_name), V.widget_name)
    /\ Declares(V.order_id) => IsMockId(Synthesised(V.order_id), V.order_id)
    /\ Declares(V.full_name) => Synthesised(V.full_name) = JStr(X.mock_full_name)
    /\ Declares(V.status) => Synthesised(V.status) = JStr(X.mock_status)

\* _simulate_outputs returned values for widget_name and for another named field
C1_Witness ==
    /\ Declares(V.widget_name)
    /\ Declares(V.customer_count) \/ Declares(V.created_date) \/ Declares(V.status)

\* The output field names the step given to _simulate_outputs declares
DeclaredKeys == {Keys(Get(arg, K.outputs, EmptyObj))[k] :
                    k \in DOMAIN Keys(Get(arg, K.outputs, EmptyObj))}

\* The field name contains the word, case-insensitively
Has(word, key) == Contains(word, lower(key))

\* v is the value of the first synthesis rule the field name key matches
RuleValue(key, v) ==
    IF Has(W.id, key) THEN IsMockId(v, key)
    ELSE IF Has(W.name, key) THEN v = JStr(T.Mock \o title(key))
    ELSE IF Has(W.date, key) \/ Has(W.time, key) THEN IsStr(v) /\ IsIso8601(v.str)
    ELSE IF Has(W.count, key) THEN v = JNum(42)
    ELSE v = JStr(T.lt_mock_ \o key \o <<">">>)

(* C18: _simulate_outputs gives each declared output field name the value of
   the first rule that matches, in the order: contains 'id' (whatever the
   case) -> mock_<field>_ and eight hexadecimal digits; contains 'name' ->
   'Mock ' and the title-cased field; contains 'date' or 'time' -> the
   current timestamp; contains 'count' -> 42; otherwise '<mock_<field>>'.  A
   name that matches several rules gets the first of them, and the keys of
   the result are exactly the declared field names. *)
C18_FirstMatchingRuleWins ==
    ret # JNull
        => /\ DOMAIN ret.value = DeclaredKeys
           /\ \A key \in DeclaredKeys : RuleValue(key, Synthesised(key))
           /\ Declares(V.UserID) => IsMockId(Synthesised(V.UserID), V.UserID)
           /\ Declares(V.rename_date) => Synthesised(V.rename_date) = JStr(X.mock_rename_date)
           /\ Declares(V.time_count)
                => IsStr(Synthesised(V.time_count)) /\ IsIso8601(Synthesised(V.time_count).str)
           /\ Declares(V.discount) => Synthesised(V.discount) = JNum(42)

\* _simulate_outputs returned values for two names that match two rules each
C18_Witness ==
    /\ ret # JNull
    /\ DOMAIN ret.value = {V.rename_date, V.time_count}
    /\ Synthesised(V.rename_date) = JStr(X.mock_rename_date)
    /\ IsStr(Synthesised(V.time_count))

-----------------------------------------------------------------------------
(* WorkflowValidator: json.dumps and the regular expressions                *)

\* json.dumps of a str: quotes around it, a backslash before " and \
DumpsStr(s) ==
    LET RECURSIVE Escaped(_)
        Escaped(k) ==
            IF k > Len(s) THEN <<>>
            ELSE (IF s[k] \in {"\"", "\\"} THEN <<"\\", s[k]>> ELSE <<s[k]>>) \o Escaped(k + 1)
    IN  <<"\"">> \o Escaped(1) \o <<"\"">>

\* json.dumps(v) with the default separators ', ' and ': '
RECURSIVE Dumps(_)
Dumps(v) ==
    IF IsNull(v) THEN J.null
    ELSE IF IsBool(v) THEN (IF v.bool THEN J.true ELSE J.false)
    ELSE IF IsNum(v) THEN IntToStr(v.num)
    ELSE IF IsStr(v) THEN DumpsStr(v.str)
    ELSE IF IsArr(v)
    THEN LET RECURSIVE Items(_)
             Items(k) ==
                IF k > Len(v.arr) THEN <<>>
                ELSE (IF k > 1 THEN <<",", " ">> ELSE <<>>) \o Dumps(v.arr[k]) \o Items(k + 1)
         IN  <<"[">> \o Items(1) \o <<"]">>
    ELSE LET RECURSIVE Members(_)
             Members(k) ==
                IF k > Len(v.obj) THEN <<>>
                ELSE (IF k > 1 THEN <<",", " ">> ELSE <<>>)
                     \o DumpsStr(v.obj[k][1]) \o <<":", " ">> \o Dumps(v.obj[k][2])
                     \o Members(k + 1)
         IN  <<"{">> \o Members(1) \o <<"}">>

\* re.match(r'^[a-z][a-z0-9_]*$', s): $ also matches before one final newline
IsSnakeCase(s) ==
    LET n == IF Len(s) > 0 /\ s[Len(s)] = "\n" THEN Len(s) - 1 ELSE Len(s)
    IN  /\ n >= 1
        /\ IsLower(s[1])
        /\ \A k \in 2..n : IsLower(s[k]) \/ IsDigit(s[k]) \/ s[k] = "_"

\* The position after the run of digits of s that starts at k
RECURSIVE DigitsEnd(_, _)
DigitsEnd(s, k) == IF k <= Len(s) /\ IsDigit(s[k]) THEN DigitsEnd(s, k + 1) ELSE k

\* re.match(r'^\d+\.\d+\.\d+$', s)
IsSemver(s) ==
    LET n == IF Len(s) > 0 /\ s[Len(s)] = "\n" THEN Len(s) - 1 ELSE Len(s)
        e1 == DigitsEnd(s, 1)
        e2 == DigitsEnd(s, e1 + 1)
        e3 == DigitsEnd(s, e2 + 1)
    IN  /\ e1 > 1 /\ e1 <= n /\ s[e1] = "."
        /\ e2 > e1 + 1 /\ e2 <= n /\ s[e2] = "."
        /\ e3 > e2 + 1 /\ e3 = n + 1

\* re.findall(r'\{\{steps\.([^.]+)\.outputs\.([^}]+)\}\}', s) from position k on
RECURSIVE FindStepRefs(_, _)
FindStepRefs(s, k) ==
    IF k > Len(s) THEN <<>>
    ELSE LET m == StepRefMatch(s, k)
         IN  IF m.ok THEN <<<<m.step_id, m.output_key>>>> \o FindStepRefs(s, m.end + 1)
             ELSE FindStepRefs(s, k + 1)

Quotes == {"\"", "'"}
Blanks == {" ", "\t", "\n", "\r"}

\* The position after the run of whitespace of s that starts at k
RECURSIVE BlanksEnd(_, _)
BlanksEnd(s, k) == IF k <= Len(s) /\ s[k] \in Blanks THEN BlanksEnd(s, k + 1) ELSE k

\* A match of  ["\']?\s*[:=]\s*["\'][^"\']+["\']  at position k of s. Each
\* greedy part is followed by a character it excludes, so there is one way to match.
AssignedLiteralAt(s, k) ==
    LET a == IF k <= Len(s) /\ s[k] \in Quotes THEN k + 1 ELSE k
        b == BlanksEnd(s, a)
        c == BlanksEnd(s, b + 1)
        RECURSIVE LiteralEnd(_)
        LiteralEnd(p) == IF p <= Len(s) /\ s[p] \notin Quotes THEN LiteralEnd(p + 1) ELSE p
        d == LiteralEnd(c + 1)
    IN  /\ b <= Len(s) /\ s[b] \in {":", "="}
        /\ c <= Len(s) /\ s[c] \in Quotes
        /\ d > c + 1
        /\ d <= Len(s)

\* re.search(word + r'["\']?\s*[:=]\s*["\'][^"\']+["\']', s)
SearchAssigned(word, s) ==
    \E k \in 1..Len(s) :
        s[k] = word[1] /\ StartsAt(s, k, word) /\ AssignedLiteralAt(s, k + Len(word))

\* re.search(r'api[_-]?key["\']?\s*[:=]\s*["\'][^"\']+["\']', s)
SearchApiKey(s) ==
    \E k \in 1..Len(s) :
        /\ s[k] = W.api[1]
        /\ StartsAt(s, k, W.api)
        /\ LET p == k + Len(W.api)
               q == IF p <= Len(s) /\ s[p] \in {"_", "-"} THEN p + 1 ELSE p
           IN  \/ StartsAt(s, q, W.key) /\ AssignedLiteralAt(s, q + Len(W.key))
               \/ StartsAt(s, p, W.key) /\ AssignedLiteralAt(s, p + Len(W.key))

-----------------------------------------------------------------------------
(* WorkflowValidator: the checks of validate()                              *)

\* What a check appends to self.errors, self.warnings and self.info. A message
\* is its format string together with the values formatted into it.
NoFindings == [errors |-> <<>>, warnings |-> <<>>, info |-> <<>>]
Message(text, values) == [text |-> text, values |-> values]
Error(text, values) == [NoFindings EXCEPT !.errors = <<Message(text, values)>>]
Warning(text, values) == [NoFindings EXCEPT !.warnings = <<Message(text, values)>>]
Info(text, values) == [NoFindings EXCEPT !.info = <<Message(text, values)>>]
When(condition, findings) == IF condition THEN findings ELSE NoFindings

\* The appends of f followed by the appends of g
Plus(f, g) ==
    [errors |-> f.errors \o g.errors,
     warnings |-> f.warnings \o g.warnings,
     info |-> f.info \o g.info]

\* The appends of fs[1], fs[2], ... in that order
RECURSIVE Sum(_)
Sum(fs) == IF fs = <<>> THEN NoFindings ELSE Plus(fs[1], Sum(Tail(fs)))

required_keys == <<K.metadata, K.inputs, K.security, K.steps>>
valid_keys ==
    {K.metadata, K.inputs, K.security, K.validation,
     K.steps, K.execution_config, K.observability, K.documentation}

\* _validate_structure (lines 53-69)
validate_structure(wf) ==
    LET unknown == {Keys(wf)[k] : k \in DOMAIN Keys(wf)} \ valid_keys
    IN  Plus(Sum([k \in DOMAIN required_keys |->
                    When(~HasKey(wf, required_keys[k]),
                         Error("Missing required key: '{key}'", <<required_keys[k]>>))]),
             When(unknown # {}, Warning("Unknown top-level keys: {unknown}", <<unknown>>)))

required_metadata == <<K.workflow_name, K.workflow_id, K.platform, K.schema_version>>

\* _validate_metadata (lines 71-95)
validate_metadata(metadata) ==
    Sum(<<Sum([k \in DOMAIN required_metadata |->
                When(~HasKey(metadata, required_metadata[k]),
                     Error("metadata.{field} is required", <<required_metadata[k]>>))]),
          When(HasKey(metadata, K.workflow_name)
                 /\ ~IsSnakeCase(Get(metadata, K.workflow_name, JStr(<<>>)).str),
               Error("workflow_name '{name}' must be snake_case starting with a letter",
                     <<Get(metadata, K.workflow_name, JNull)>>)),
          When(HasKey(metadata, K.schema_version)
                 /\ ~IsSemver(Get(metadata, K.schema_version, JStr(<<>>)).str),
               Error("schema_version '{version}' must be semver (e.g., 1.0.0)",
                     <<Get(metadata, K.schema_version, JNull)>>)),
          When(~HasKey(metadata, K.idempotent),
               Warning("Consider declaring 'idempotent' status in metadata", <<>>))>>)

\* The body of the loop of _validate_inputs for one required input
validate_input(name, param) ==
    Sum(<<When(~HasKey(param, K.type), Error("Input '{name}' missing 'type' field", <<name>>)),
          When(~HasKey(param, K.description),
               Warning("Input '{name}' missing description", <<name>>)),
          When(Get(param, K.type, JNull) = JStr(V.string) /\ ~HasKey(param, K.validation),
               Info("Input '{name}' (string) has no validation rules (consider adding pattern/length)",
                    <<name>>))>>)

\* _validate_inputs (lines 97-114): only the 'required' block is iterated
validate_inputs(ins) ==
    IF ~HasKey(ins, K.required) /\ ~HasKey(ins, K.optional)
    THEN Warning("No inputs defined (required or optional)", <<>>)
    ELSE LET required == Get(ins, K.required, EmptyObj).obj
         IN  Sum([k \in DOMAIN required |-> validate_input(required[k][1], required[k][2])])

secrets_handlings == {JStr(V.runtime_injected), JStr(V.vault), JStr(V.env_var)}

\* _validate_security (lines 116-142)
validate_security(security) ==
    IF ~Truthy(security)
    THEN Error("Security configuration is required", <<>>)
    ELSE Sum(<<
          When(~HasKey(security, K.auth_required),
               Error("security.auth_required must be declared", <<>>)),
          IF ~HasKey(security, K.secrets_handling)
          THEN Error("security.secrets_handling must be declared", <<>>)
          ELSE When(Lookup(security, K.secrets_handling) \notin secrets_handlings,
                    Error("Invalid secrets_handling: {secrets_handling}",
                          <<Lookup(security, K.secrets_handling)>>)),
          IF Get(security, K.secrets_handling, JNull) = JStr(V.runtime_injected)
          THEN Info("[+] Credential-agnostic design (runtime_injected)", <<>>)
          ELSE Warning("Consider using 'runtime_injected' for better security", <<>>),
          When(~HasKey(security, K.minimum_role),
               Warning("Consider specifying 'minimum_role' for RBAC", <<>>)),
          When(~HasKey(security, K.rate_limit),
               Warning("Consider adding rate_limit configuration", <<>>))>>)

operations == {JStr(V.query), JStr(V.mutation), JStr(V.workflow), JStr(V.custom)}
required_step_fields == <<K.operation, K.api_endpoint>>

\* The body of the loop of _validate_steps for step number n, with step_ids
\* the ids of the steps before it
validate_step(step, n, step_ids) ==
    IF ~HasKey(step, K.id)
    THEN Error("Step {step_num} missing 'id' field", <<n>>)
    ELSE LET step_id == Lookup(step, K.id)
         IN  Sum(<<
              When(step_id \in step_ids, Error("Duplicate step ID: '{step_id}'", <<step_id>>)),
              When(~IsSnakeCase(step_id.str),
                   Error("Step ID '{step_id}' must be snake_case starting with a letter",
                         <<step_id>>)),
              Sum([k \in DOMAIN required_step_fields |->
                    When(~HasKey(step, required_step_fields[k]),
                         Error("Step '{step_id}' missing '{field}' field",
                               <<step_id, required_step_fields[k]>>))]),
              When(Get(step, K.operation, JNull) \notin operations,
                   Error("Step '{step_id}' has invalid operation: {operation}",
                         <<step_id, Get(step, K.operation, JNull)>>)),
              When(~HasKey(step, K.error_handling),
                   Warning("Step '{step_id}' has no error_handling configuration", <<step_id>>)),
              When(Get(step, K.operation, JNull) = JStr(V.mutation) /\ ~HasKey(step, K.outputs),
                   Warning("Mutation step '{step_id}' should declare 'outputs' for downstream dependencies",
                           <<step_id>>)),
              When(~HasKey(step, K.telemetry),
                   Info("Step '{step_id}' has no telemetry configuration", <<step_id>>))>>)

\* A variant of StepIds that remembers the id of the last step only
StepIds_last_only(steps, n) ==
    {Lookup(steps[k], K.id) : k \in {j \in 1..n : j = n /\ HasKey(steps[j], K.id)}}

\* {step['id'] for step in steps[:n] if 'id' in step}
StepIds(steps, n) == {Lookup(steps[k], K.id) : k \in {j \in 1..n : HasKey(steps[j], K.id)}}

\* _validate_steps (lines 144-196)
validate_steps(steps) ==
    IF steps = <<>>
    THEN Error("Workflow must have at least one step", <<>>)
    ELSE Sum([k \in DOMAIN steps |-> validate_step(steps[k], k, StepIds(steps, k - 1))])

\* step.get('depends_on', [])
DependsOnOf(step) == Get(step, K.depends_on, EmptyArr).arr

\* graph of _has_circular_dependency: {step['id']: step.get('depends_on', [])
\* for step in steps if 'id' in step}; the last step with an id gives its value
Graph(steps) ==
    [id \in StepIds(steps, Len(steps)) |->
        LET last == CHOOSE k \in DOMAIN steps :
                        /\ Get(steps[k], K.id, JNull) = id
                        /\ \A j \in DOMAIN steps : Get(steps[j], K.id, JNull) = id => j <= k
        IN  DependsOnOf(steps[last])]

\* The keys of graph in insertion order: the ids in order of first occurrence
GraphNodes(steps) ==
    LET firsts == {k \in DOMAIN steps :
                        /\ HasKey(steps[k], K.id)
                        /\ \A j \in 1..(k - 1) : Get(steps[j], K.id, JNull) # Lookup(steps[k], K.id)}
        RECURSIVE From(_)
        From(k) == IF k > Len(steps) THEN <<>>
                   ELSE (IF k \in firsts THEN <<Lookup(steps[k], K.id)>> ELSE <<>>) \o From(k + 1)
    IN  From(1)

\* dfs(node) of _has_circular_dependency (lines 223-235): the value returned
\* and the set visited afterwards. rec_stack is the set on entry; a call that
\* returns False leaves it as it found it.
RECURSIVE dfs(_, _, _, _)
RECURSIVE dfs_neighbors(_, _, _, _, _)
dfs(graph, node, visited, rec_stack) ==
    dfs_neighbors(graph, IF node \in DOMAIN graph THEN graph[node] ELSE <<>>, 1,
                  visited \cup {node}, rec_stack \cup {node})

\* The loop  for neighbor in graph.get(node, [])  from the k-th neighbor on
dfs_neighbors(graph, neighbors, k, visited, rec_stack) ==
    IF k > Len(neighbors) THEN [found |-> FALSE, visited |-> visited]
    ELSE IF neighbors[k] \notin visited
    THEN LET below == dfs(graph, neighbors[k], visited, rec_stack)
         IN  IF below.found THEN below
             ELSE dfs_neighbors(graph, neighbors, k + 1, below.visited, rec_stack)
    ELSE IF neighbors[k] \in rec_stack THEN [found |-> TRUE, visited |-> visited]
    ELSE dfs_neighbors(graph, neighbors, k + 1, visited, rec_stack)

\* A variant of has_circular_dependency that only finds a step depending on itself
has_circular_dependency_self_only(steps) ==
    \E k \in DOMAIN steps :
        HasKey(steps[k], K.id)
        /\ \E d \in DOMAIN DependsOnOf(steps[k]) : DependsOnOf(steps[k])[d] = Lookup(steps[k], K.id)

\* A variant of has_circular_dependency that traverses from the first node only
has_circular_dependency_first_node_only(steps) ==
    IF GraphNodes(steps) = <<>> THEN FALSE
    ELSE dfs(Graph(steps), GraphNodes(steps)[1], {}, {}).found

\* _has_circular_dependency (lines 216-242)
has_circular_dependency(steps) ==
    LET graph == Graph(steps)
        nodes == GraphNodes(steps)
        RECURSIVE From(_, _)
        From(k, visited) ==
            IF k > Len(nodes) THEN FALSE
            ELSE IF nodes[k] \in visited THEN From(k + 1, visited)
            ELSE LET r == dfs(graph, nodes[k], visited, {})
                 IN  r.found \/ From(k + 1, r.visited)
    IN  From(1, {})

\* A variant of validate_dependencies that knows, at a step, only the ids of the
\* steps declared before it
validate_dependencies_declared_before(steps) ==
    Plus(Sum([k \in DOMAIN steps |->
                Sum([d \in DOMAIN DependsOnOf(steps[k]) |->
                      When(DependsOnOf(steps[k])[d] \notin StepIds(steps, k - 1),
                           Error("Step '{step_id}' depends on unknown step '{dep_id}'",
                                 <<Get(steps[k], K.id, JStr(V.unknown)),
                                   DependsOnOf(steps[k])[d]>>))])]),
         When(has_circular_dependency(steps),
              Error("Circular dependency detected in workflow steps", <<>>)))

\* _validate_dependencies (lines 198-214)
validate_dependencies(steps) ==
    LET step_ids == StepIds(steps, Len(steps))
    IN  Plus(Sum([k \in DOMAIN steps |->
                    Sum([d \in DOMAIN DependsOnOf(steps[k]) |->
                          When(DependsOnOf(steps[k])[d] \notin step_ids,
                               Error("Step '{step_id}' depends on unknown step '{dep_id}'",
                                     <<Get(steps[k], K.id, JStr(V.unknown)),
                                       DependsOnOf(steps[k])[d]>>))])]),
             When(has_circular_dependency(steps),
                  Error("Circular dependency detected in workflow steps", <<>>)))

\* available_outputs of _validate_data_flow when the loop reaches step n: the
\* output keys of the last earlier step registered under each id
AvailableOutputs(steps, n) ==
    LET registered == {k \in 1..(n - 1) : HasKey(steps[k], K.outputs)}
        IdOf(k) == Get(steps[k], K.id, JStr(V.unknown)).str
    IN  [id \in {IdOf(k) : k \in registered} |->
            LET last == CHOOSE k \in registered :
                            IdOf(k) = id /\ \A j \in registered : IdOf(j) = id => j <= k
            IN  {Keys(Lookup(steps[last], K.outputs))[j] :
                    j \in DOMAIN Keys(Lookup(steps[last], K.outputs))}]

\* The body of the loop of _validate_data_flow for one step
validate_step_data_flow(step, available_outputs) ==
    LET step_id == Get(step, K.id, JStr(V.unknown))
        refs == FindStepRefs(Dumps(Get(step, K.inputs, EmptyObj)), 1)
    IN  Sum([r \in DOMAIN refs |->
              IF refs[r][1] \notin DOMAIN available_outputs
              THEN Error("Step '{step_id}' references output from unknown step '{ref_step}'",
                         <<step_id, refs[r][1]>>)
              ELSE When(refs[r][2] \notin available_outputs[refs[r][1]],
                        Warning("Step '{step_id}' references '{ref_field}' which is not declared in step '{ref_step}' outputs",
                                <<step_id, refs[r][2], refs[r][1]>>))])

\* _validate_data_flow (lines 244-270)
validate_data_flow(steps) ==
    Sum([k \in DOMAIN steps |-> validate_step_data_flow(steps[k], AvailableOutputs(steps, k))])

\* The four suspicious patterns of _audit_security searched in workflow_str
hardcoded_credentials(workflow_str) ==
    Sum(<<When(SearchAssigned(W.password, workflow_str),
               Error("SECURITY: {message} found in workflow", <<"Possible hardcoded password">>)),
          When(SearchAssigned(W.token, workflow_str),
               Error("SECURITY: {message} found in workflow", <<"Possible hardcoded token">>)),
          When(SearchApiKey(workflow_str),
               Error("SECURITY: {message} found in workflow", <<"Possible hardcoded API key">>)),
          When(SearchAssigned(W.secret, workflow_str),
               Error("SECURITY: {message} found in workflow", <<"Possible hardcoded secret">>))>>)

\* _audit_security (lines 272-295)
audit_security(wf) ==
    Plus(hardcoded_credentials(lower(Dumps(wf))),
         When(/\ Truthy(Get(Get(Get(wf, K.observability, EmptyObj), K.audit, EmptyObj),
                            K.log_inputs, JNull))
              /\ ~Truthy(Get(Get(wf, K.security, EmptyObj), K.pii_fields, JNull)),
              Warning("Audit logs inputs but no PII fields declared - consider privacy implications",
                      <<>>)))

\* _check_best_practices (lines 297-322)
check_best_practices(wf) ==
    Sum(<<IF ~HasKey(wf, K.documentation)
          THEN Warning("No documentation section found", <<>>)
          ELSE When(~Truthy(Get(Lookup(wf, K.documentation), K.semantic_gaps, JNull)),
                    Info("Consider documenting semantic gaps (UI term -> API field)", <<>>)),
          When(~HasKey(wf, K.observability),
               Warning("No observability configuration found", <<>>)),
          When(~HasKey(wf, K.validation),
               Warning("No validation rules (pre/post conditions) defined", <<>>)),
          When(~Truthy(Get(Get(wf, K.execution_config, EmptyObj), K.dry_run_supported, JNull)),
               Info("Workflow does not support dry-run mode", <<>>)),
          When(~Truthy(Get(Get(wf, K.execution_config, EmptyObj), K.rollback_supported, JNull)),
               Info("Workflow does not support rollback on failure", <<>>))>>)

\* What the nine checks of validate(wf) append, in the order they run (lines 35-49)
validate_findings(wf) ==
    Sum(<<validate_structure(wf),
          validate_metadata(Get(wf, K.metadata, EmptyObj)),
          validate_inputs(Get(wf, K.inputs, EmptyObj)),
          validate_security(Get(wf, K.security, EmptyObj)),
          validate_steps(Get(wf, K.steps, EmptyArr).arr),
          validate_dependencies(Get(wf, K.steps, EmptyArr).arr),
          validate_data_flow(Get(wf, K.steps, EmptyArr).arr),
          audit_security(wf),
          check_best_practices(wf)>>)

\* A variant of validate_result that lets a warning fail the validation
validate_result_no_warnings(errs, warns) == Len(errs) = 0 /\ Len(warns) = 0

\* return len(self.errors) == 0 (line 51), with self.warnings at that point
validate_result(errs, warns) == Len(errs) = 0

-----------------------------------------------------------------------------
(* WorkflowValidator: the definitions validate() is given                   *)

\* Most validate() calls on one instance
MaxCalls == 2
\* Length of the step lists in which one step refers to the outputs of another
MaxRefSteps == 3

Pair(key, v) == << <<key, v>> >>

MkWorkflow(metadata, ins, security, steps, others) ==
    JObj(Opt(K.metadata, metadata) \o Opt(K.inputs, ins) \o Opt(K.security, security)
         \o Opt(K.steps, steps) \o others)

MkMetadata(workflow_name, workflow_id, platform, schema_version, idempotent) ==
    JObj(Opt(K.workflow_name, workflow_name) \o Opt(K.workflow_id, workflow_id)
         \o Opt(K.platform, platform) \o Opt(K.schema_version, schema_version)
         \o Opt(K.idempotent, idempotent))

MkParam(type, description, validation) ==
    JObj(Opt(K.type, type) \o Opt(K.description, description) \o Opt(K.validation, validation))

MkSecurity(auth_required, secrets_handling, minimum_role, rate_limit, pii_fields) ==
    JObj(Opt(K.auth_required, auth_required) \o Opt(K.secrets_handling, secrets_handling)
         \o Opt(K.minimum_role, minimum_role) \o Opt(K.rate_limit, rate_limit)
         \o Opt(K.pii_fields, pii_fields))

\* A step with the fields _validate_steps looks at
MkCheckedStep(id, operation, api_endpoint, error_handling, telemetry, ins, outs) ==
    JObj(Opt(K.id, id) \o Opt(K.operation, operation) \o Opt(K.api_endpoint, api_endpoint)
         \o Opt(K.error_handling, error_handling) \o Opt(K.telemetry, telemetry)
         \o Opt(K.inputs, ins) \o Opt(K.outputs, outs))

MkObservability(log_inputs) == JObj(Pair(K.audit, JObj(Opt(K.log_inputs, log_inputs))))

\* Sections that draw no finding of severity error or warning
GoodMetadata ==
    MkMetadata(JStr(V.demo_flow), JStr(V.wf_id), JStr(V.rest), JStr(V.semver), JBool(TRUE))
GoodInputs ==
    JObj(Pair(K.required,
              JObj(Pair(V.region, MkParam(JStr(V.string), JStr(V.region),
                                          JObj(Pair(V.pattern, JStr(V.region))))))))
GoodSecurity ==
    MkSecurity(JBool(TRUE), JStr(V.runtime_injected), JStr(V.viewer), JNum(10), Absent)
GoodStep ==
    MkCheckedStep(JStr(StepId(1)), JStr(V.query), JStr(V.orders),
                  JObj(Pair(V.retry, JNum(3))), JBool(TRUE), Absent,
                  JObj(Pair(V.order_id, JStr(V.path))))
GoodOthers ==
    Pair(K.validation, EmptyObj)
    \o Pair(K.execution_config,
            JObj(Pair(K.dry_run_supported, JBool(TRUE)) \o Pair(K.rollback_supported, JBool(TRUE))))
    \o Pair(K.observability, MkObservability(Absent))
    \o Pair(K.documentation, JObj(Pair(K.semantic_gaps, JArr(<<JStr(V.customer)>>))))

\* The top-level keys other than the four required ones, each present or not
OtherSections ==
    <<Pair(K.validation, EmptyObj),
      Pair(K.execution_config, JObj(Pair(K.dry_run_supported, JBool(FALSE)))),
      Pair(K.observability, MkObservability(JBool(TRUE))),
      Pair(K.documentation, EmptyObj),
      Pair(V.extra, JNum(1))>>

RECURSIVE Chosen(_, _, _)
Chosen(sections, present, k) ==
    IF k > Len(sections) THEN <<>>
    ELSE (IF k \in present THEN sections[k] ELSE <<>>) \o Chosen(sections, present, k + 1)

\* Definitions that differ in the top-level keys they have
StructureDefinition(required, others) ==
    MkWorkflow(IF 1 \in required THEN GoodMetadata ELSE Absent,
               IF 2 \in required THEN GoodInputs ELSE Absent,
               IF 3 \in required THEN GoodSecurity ELSE Absent,
               IF 4 \in required THEN JArr(<<GoodStep>>) ELSE Absent,
               Chosen(OtherSections, others, 1))

\* Definitions that differ in one section, the others being good
MetadataDefinition(metadata) ==
    MkWorkflow(metadata, GoodInputs, GoodSecurity, JArr(<<GoodStep>>), GoodOthers)
InputsDefinition(ins) ==
    MkWorkflow(GoodMetadata, ins, GoodSecurity, JArr(<<GoodStep>>), GoodOthers)
SecurityDefinition(security, log_inputs) ==
    MkWorkflow(GoodMetadata, GoodInputs, security, JArr(<<GoodStep>>),
               Pair(K.observability, MkObservability(log_inputs)))
StepsDefinition(steps) ==
    MkWorkflow(GoodMetadata, GoodInputs, GoodSecurity, JArr(steps), GoodOthers)

WorkflowNames == {Absent, JStr(V.demo_flow), JStr(V.Demo), JStr(V.digit_first), JStr(<<>>)}
SchemaVersions == {Absent, JStr(V.semver), JStr(V.semver_short), JStr(V.semver_v)}
Flags == {Absent, JBool(TRUE)}

InputsBlocks ==
    {EmptyObj, GoodInputs,
     JObj(Pair(K.optional, JObj(Pair(V.limit, EmptyObj)))),
     JObj(Pair(K.required, JObj(Pair(V.region, EmptyObj)))),
     JObj(Pair(K.required, JObj(Pair(V.region, MkParam(JStr(V.string), Absent, Absent))))),
     JObj(Pair(K.required, JObj(Pair(V.region, MkParam(JStr(V.integer), JStr(V.region), Absent))
                                \o Pair(V.email, MkParam(Absent, JStr(V.email), Absent))))),
     JObj(Pair(K.required, EmptyObj) \o Pair(K.optional, JObj(Pair(V.limit, EmptyObj))))}

SecretsHandlings ==
    {Absent, JStr(V.runtime_injected), JStr(V.vault), JStr(V.env_var), JStr(V.plaintext)}

\* Step lists that differ in the fields _validate_steps looks at
StepIdVariants == {Absent, JStr(StepId(1)), JStr(StepId(2)), JStr(V.digit_first), JStr(V.Demo)}
OperationVariants == {Absent, JStr(V.query), JStr(V.mutation), JStr(V.unknown)}

\* Step inputs that assign a literal or a template to a key
CredentialKeys == {K.password, K.api_key, K.apiKey, K.access_token, K.client_secret, K.q}
CredentialValues ==
    {JStr(V.hunter2), JStr(T.inputs_open \o K.password \o T.close), JStr(<<>>), JNum(7)}

\* Inputs that refer to output y of step x, to a step that is not declared,
\* or to both
ReferenceInputs(x, y) ==
    {JObj(Pair(K.id, JStr(Template(x, y)))),
     JObj(Pair(K.id, JStr(Template(x, y))) \o Pair(K.q, JStr(Template(V.ghost, y)))),
     JObj(Pair(K.q, JStr(Template(V.ghost, y) \o <<" ">> \o Template(V.ghost, V.order_id))))}

\* The list of n complete steps a, b, ... where the steps at the positions in
\* declaring have the outputs block {order_id} and step r has the inputs ins
ReferenceStepList(n, declaring, r, ins) ==
    [k \in 1..n |->
        MkCheckedStep(JStr(StepId(k)), JStr(V.query), JStr(V.orders), JBool(TRUE), JBool(TRUE),
                      IF k = r THEN ins ELSE Absent,
                      IF k \in declaring THEN JObj(Pair(V.order_id, JStr(V.path))) ELSE Absent)]

\* A step without an id, with the outputs block {order_id} or none, followed by
\* a step whose inputs refer to output y of the step called 'unknown'
AnonymousStepList(declares, y) ==
    <<MkCheckedStep(Absent, JStr(V.query), JStr(V.orders), JBool(TRUE), JBool(TRUE), Absent,
                    IF declares THEN JObj(Pair(V.order_id, JStr(V.path))) ELSE Absent),
      MkCheckedStep(JStr(StepId(2)), JStr(V.query), JStr(V.orders), JBool(TRUE), JBool(TRUE),
                    JObj(Pair(K.id, JStr(Template(V.unknown, y)))), Absent)>>

\* The list of n complete steps where step k has the id ids[k], or none
IdStepList(n, ids) ==
    [k \in 1..n |->
        MkCheckedStep(ids[k], JStr(V.query), JStr(V.orders), JBool(TRUE), JBool(TRUE),
                      Absent, Absent)]

-----------------------------------------------------------------------------
(* WorkflowValidator: the state machine of validate()                       *)

\* validate(wf) with found the findings of its nine checks (lines 30-51): the
\* lists are appended to, never emptied
ValidateCall(wf, found) ==
    /\ errors' = errors \o found.errors
    /\ warnings' = warnings \o found.warnings
    /\ info' = info \o found.info
    /\ passed' = JBool(validate_result(errors \o found.errors, warnings \o found.warnings))
    /\ definition' = wf
    /\ calls' = calls + 1
    /\ UNCHANGED <<strict_mode, exit_code, sim_vars, fun_vars>>

\* validate() called on a validator that was just constructed
Validate ==
    /\ calls = 0
    /\ \E wf \in
            {StructureDefinition(required, others) :
                required \in SUBSET (1..4), others \in SUBSET (1..Len(OtherSections))}
            \cup {MetadataDefinition(MkMetadata(workflow_name, JStr(V.wf_id), platform,
                                                schema_version, idempotent)) :
                    workflow_name \in WorkflowNames, platform \in {Absent, JStr(V.rest)},
                    schema_version \in SchemaVersions, idempotent \in Flags}
            \cup {InputsDefinition(ins) : ins \in InputsBlocks}
            \cup {SecurityDefinition(MkSecurity(auth_required, secrets_handling, minimum_role,
                                                JNum(10), pii_fields), log_inputs) :
                    auth_required \in Flags, secrets_handling \in SecretsHandlings,
                    minimum_role \in {Absent, JStr(V.viewer)},
                    pii_fields \in {Absent, JArr(<<JStr(V.email)>>)}, log_inputs \in Flags}
            \cup {SecurityDefinition(EmptyObj, Absent)} :
          ValidateCall(wf, validate_findings(wf))

\* validate() called on a fresh validator with step lists that differ in the
\* fields of the steps, in their dependencies or in their data flow
ValidateSteps ==
    /\ calls = 0
    /\ \/ \E id \in StepIdVariants, operation \in OperationVariants,
             api_endpoint \in {Absent, JStr(V.orders)}, error_handling \in Flags,
             outs \in {Absent, EmptyObj} :
            \E steps \in {<<MkCheckedStep(id, operation, api_endpoint, error_handling,
                                          error_handling, Absent, outs)>>,
                          <<GoodStep, MkCheckedStep(id, operation, api_endpoint, error_handling,
                                                    error_handling, Absent, outs)>>} :
                ValidateCall(StepsDefinition(steps), validate_findings(StepsDefinition(steps)))
       \/ \E n \in 0..MaxSteps :
            \E shape \in [1..n -> {JStr(V.query)} \X DependsOnKinds] :
                ValidateCall(StepsDefinition(DependencyStepList(n, shape)),
                             validate_findings(StepsDefinition(DependencyStepList(n, shape))))
       \/ \E steps \in {list \in DataStepLists : Get(list[1], K.operation, Absent) = JStr(V.query)} :
            ValidateCall(StepsDefinition(steps), validate_findings(StepsDefinition(steps)))
       \/ \E declaring \in SUBSET (1..MaxRefSteps), r \in 1..MaxRefSteps, x \in 1..MaxRefSteps,
             y \in {V.order_id, V.status} :
            \E ins \in ReferenceInputs(StepId(x), y) :
                ValidateCall(StepsDefinition(ReferenceStepList(MaxRefSteps, declaring, r, ins)),
                             validate_findings(StepsDefinition(
                                ReferenceStepList(MaxRefSteps, declaring, r, ins))))
       \/ \E declares \in BOOLEAN, y \in {V.order_id, V.status} :
            ValidateCall(StepsDefinition(AnonymousStepList(declares, y)),
                         validate_findings(StepsDefinition(AnonymousStepList(declares, y))))
       \/ \E n \in 1..MaxSteps :
            \E ids \in [1..n -> {Absent, JStr(StepId(1)), JStr(StepId(2))}] :
                ValidateCall(StepsDefinition(IdStepList(n, ids)),
                             validate_findings(StepsDefinition(IdStepList(n, ids))))
       \/ \E key \in CredentialKeys, v \in CredentialValues :
            \E steps \in {<<MkCheckedStep(JStr(StepId(1)), JStr(V.query), JStr(V.orders),
                                          JBool(TRUE), JBool(TRUE), JObj(Pair(key, v)), Absent)>>} :
                ValidateCall(StepsDefinition(steps), validate_findings(StepsDefinition(steps)))

InitValidator ==
    /\ ExecutorInit
    /\ trace_id = Hex1
    /\ strict_mode \in BOOLEAN
    /\ ValidatorFresh
    /\ arg = JNull
    /\ ret = JNull

NextValidator == Validate \/ ValidateSteps

\* One WorkflowValidator, one validate() call: what main() of workflow_validator.py does
ValidatorSpec == InitValidator /\ [][NextValidator]_vars

\* The definitions given to a validator that is used more than once
ReusedDefinitions ==
    {StructureDefinition(required, {}) : required \in {{}, {1, 2, 3, 4}, {1, 2, 4}}}
    \cup {MetadataDefinition(MkMetadata(workflow_name, JStr(V.wf_id), JStr(V.rest),
                                        JStr(V.semver), idempotent)) :
            workflow_name \in {JStr(V.demo_flow), JStr(V.Demo)}, idempotent \in Flags}
    \cup {InputsDefinition(ins) : ins \in InputsBlocks}
    \cup {StepsDefinition(DependencyStepList(2, shape)) :
            shape \in [1..2 -> {JStr(V.query)} \X DependsOnKinds]}

\* validate() called on a validator whatever it has validated before
ValidateAgain ==
    /\ calls < MaxCalls
    /\ \E wf \in ReusedDefinitions : ValidateCall(wf, validate_findings(wf))

NextValidatorReuse == ValidateAgain

\* One WorkflowValidator given several definitions, one after the other
ValidatorReuseSpec == InitValidator /\ [][NextValidatorReuse]_vars

-----------------------------------------------------------------------------
(* Properties of WorkflowValidator                                          *)

\* What validate(definition) appends on a validator that was just constructed
FreshFindings == IF calls = 0 THEN NoFindings ELSE validate_findings(definition)

(* C9: validate() on a fresh validator returns true exactly when the call
   added no finding of severity error; warnings and info findings, whatever
   their number, leave a result without errors true. *)
C9_PassIffNoErrors ==
    calls = 1
        => /\ passed = JBool(TRUE) <=> errors = <<>>
           /\ passed = JBool(FALSE) <=> errors # <<>>
           /\ errors = FreshFindings.errors
           /\ warnings = FreshFindings.warnings
           /\ info = FreshFindings.info

\* A fresh validator passed a definition that drew warnings and info findings
C9_Witness ==
    /\ calls = 1
    /\ passed = JBool(TRUE)
    /\ Len(warnings) >= 2
    /\ Len(info) >= 1

(* C10 as stated: the result and the findings of validate(d) depend on d
   alone; after every call, on a used instance as on a fresh one, they are the
   result and the findings a fresh validator gives for d. *)
C10_ValidationIsPure ==
    calls > 0
        => /\ errors = FreshFindings.errors
           /\ warnings = FreshFindings.warnings
           /\ info = FreshFindings.info
           /\ passed = JBool(FreshFindings.errors = <<>>)

-----------------------------------------------------------------------------
(* workflow_validator.py: main()                                            *)

\* A variant of main_exit_code that does not look at --strict
main_exit_code_lenient(success, strict, warns) == IF ~success THEN 1 ELSE 0

\* The exit code main() chooses (lines 393-400)
main_exit_code(success, strict, warns) ==
    IF ~success THEN 1
    ELSE IF strict /\ Len(warns) > 0 THEN 1
    ELSE 0

\* The end of main() after validator.validate(workflow) returned (lines 392-400)
Exit ==
    /\ calls = 1
    /\ exit_code = JNull
    /\ exit_code' = JNum(main_exit_code(passed.bool, strict_mode, warnings))
    /\ UNCHANGED <<strict_mode, errors, warnings, info, definition, passed, calls>>
    /\ UNCHANGED <<sim_vars, fun_vars>>

NextMain == Validate \/ ValidateSteps \/ Exit

\* main() of workflow_validator.py, with and without --strict
ValidatorMainSpec == InitValidator /\ [][NextMain]_vars

(* C11: the validator run reports success (exit code 0) exactly when there is
   no error finding and, with --strict, no warning finding either; with and
   without --strict the findings are those validate() gives for the
   definition, which do not depend on the flag. *)
C11_StrictChangesOutcomeOnly ==
    exit_code # JNull
        => /\ exit_code = JNum(0) <=> (errors = <<>> /\ (strict_mode => warnings = <<>>))
           /\ exit_code \in {JNum(0), JNum(1)}
           /\ errors = FreshFindings.errors
           /\ warnings = FreshFindings.warnings
           /\ info = FreshFindings.info

\* A strict run that failed on warnings alone
C11_Witness ==
    /\ exit_code = JNum(1)
    /\ strict_mode
    /\ errors = <<>>
    /\ warnings # <<>>


-----------------------------------------------------------------------------
(* _validate_dependencies applied on its own                                *)

\* The ids of the steps at the positions in S, in ascending order of position
RECURSIVE IdsOf(_, _, _)
IdsOf(S, k, n) ==
    IF k > n THEN <<>>
    ELSE (IF k \in S THEN <<JStr(StepId(k))>> ELSE <<>>) \o IdsOf(S, k + 1, n)

\* The list of n query steps a, b, ... where step k depends on the steps at deps[k]
GraphStepList(n, deps) ==
    [k \in 1..n |->
        MkStep(JStr(StepId(k)), JStr(V.query),
               IF deps[k] = {} THEN Absent ELSE JArr(IdsOf(deps[k], 1, n)), Absent, Absent)]

\* The longest depends_on list of the steps of EntryStepList
MaxDeps == 2

\* The ids a depends_on entry names: the two steps of the list and one that no
\* definition declares
EntryPool == {JStr(StepId(1)), JStr(StepId(2)), JStr(V.ghost)}

\* The list of n query steps a, b where step k has the depends_on list entries[k],
\* in which an id may be repeated
EntryStepList(n, entries) ==
    [k \in 1..n |->
        MkStep(JStr(StepId(k)), JStr(V.query),
               IF entries[k] = <<>> THEN Absent ELSE JArr(entries[k]), Absent, Absent)]

InitDependencies ==
    /\ ExecutorInit
    /\ trace_id = Hex1
    /\ strict_mode = FALSE
    /\ ValidatorFresh
    /\ arg \in UNION {{JArr(GraphStepList(n, deps)) : deps \in [1..n -> SUBSET (1..n)]} :
                        n \in 1..MaxSteps}
               \cup UNION {{JArr(EntryStepList(n, entries)) :
                                entries \in [1..n -> SeqsUpTo(EntryPool, MaxDeps)]} :
                            n \in 1..2}
    /\ ret = JNull

\* self._validate_dependencies(steps) on a fresh validator
ValidateDependencies ==
    /\ ret = JNull
    /\ ret' = [value |-> validate_dependencies(arg.arr)]
    /\ UNCHANGED <<arg, sim_vars, val_vars>>

NextDependencies == ValidateDependencies

DependenciesSpec == InitDependencies /\ [][NextDependencies]_vars

\* The step list given to _validate_dependencies and the errors it added
DependencySteps == arg.arr
DependencyErrors == ret.value.errors
CircularErrors == SelectSeq(DependencyErrors, LAMBDA m : m.text = "Circular dependency detected in workflow steps")

\* Steps a and b depend on each other and on nothing else
MutualPair(a, b) ==
    /\ a # b
    /\ DependsOnOf(DependencySteps[a]) = <<Lookup(DependencySteps[b], K.id)>>
    /\ DependsOnOf(DependencySteps[b]) = <<Lookup(DependencySteps[a], K.id)>>

(* C12: a step list with two steps A and B where A.depends_on = [B] and
   B.depends_on = [A] draws the circular-dependency error, whatever the other
   steps depend on and wherever A and B stand; and one call adds the
   circular-dependency error at most once. *)
C12_MutualDependencyIsReported ==
    ret # JNull
        => /\ Len(CircularErrors) <= 1
           /\ (\E a, b \in DOMAIN DependencySteps : MutualPair(a, b)) => Len(CircularErrors) = 1

\* A mutual pair at the two ends of a list of three steps, the middle step
\* being on a second cycle, reported once
C12_Witness ==
    /\ ret # JNull
    /\ Len(DependencySteps) >= 3
    /\ MutualPair(1, 3)
    /\ DependsOnOf(DependencySteps[2]) = <<JStr(StepId(2))>>
    /\ Len(CircularErrors) = 1

-----------------------------------------------------------------------------
(* Properties of the data-flow and of the step checks of validate()         *)

\* The steps of the definition validated, and the references in the inputs of step k
ValidatedSteps == IF calls = 0 THEN <<>> ELSE Get(definition, K.steps, EmptyArr).arr
ReferencesOf(k) == FindStepRefs(Dumps(Get(ValidatedSteps[k], K.inputs, EmptyObj)), 1)

\* Some step of the definition has the id x
StepExists(x) == \E j \in DOMAIN ValidatedSteps : Get(ValidatedSteps[j], K.id, JNull) = JStr(x)

\* The output fields the steps with id x declare
DeclaredOutputsOf(x) ==
    UNION {{Keys(Lookup(ValidatedSteps[j], K.outputs))[f] :
                f \in DOMAIN Keys(Lookup(ValidatedSteps[j], K.outputs))} :
            j \in {j \in DOMAIN ValidatedSteps :
                        /\ Get(ValidatedSteps[j], K.id, JNull) = JStr(x)
                        /\ HasKey(ValidatedSteps[j], K.outputs)}}

\* How often the message with this text and these values is in findings
Count(findings, text, values) ==
    Cardinality({e \in DOMAIN findings :
                    findings[e].text = text /\ findings[e].values = values})

UnknownStepErrors(k, x) ==
    Count(errors, "Step '{step_id}' references output from unknown step '{ref_step}'",
          <<Get(ValidatedSteps[k], K.id, JStr(V.unknown)), x>>)
UndeclaredFieldWarnings(k, x, y) ==
    Count(warnings,
          "Step '{step_id}' references '{ref_field}' which is not declared in step '{ref_step}' outputs",
          <<Get(ValidatedSteps[k], K.id, JStr(V.unknown)), y, x>>)

(* C13 as stated: a reference {{steps.X.outputs.Y}} in the inputs of a step,
   with X the id of a step of the definition and Y not among the output fields
   X declares, draws a warning and no error, wherever X stands in the list and
   whether or not X has an outputs block. *)
C13_UndeclaredFieldIsWarning ==
    calls = 1
        => \A k \in DOMAIN ValidatedSteps : \A r \in DOMAIN ReferencesOf(k) :
            LET x == ReferencesOf(k)[r][1]
                y == ReferencesOf(k)[r][2]
            IN  StepExists(x) /\ y \notin DeclaredOutputsOf(x)
                    => UndeclaredFieldWarnings(k, x, y) >= 1 /\ UnknownStepErrors(k, x) = 0

(* C14 as stated: a reference {{steps.X.outputs.Y}} in the inputs of a step, with no
   step of id X anywhere in the definition, draws an error that names X, one
   error for each such reference, and validate() returns false. *)
C14_UnknownStepIsError ==
    calls = 1
        => \A k \in DOMAIN ValidatedSteps : \A r \in DOMAIN ReferencesOf(k) :
            LET x == ReferencesOf(k)[r][1]
            IN  ~StepExists(x)
                    => /\ UnknownStepErrors(k, x)
                            = Cardinality({q \in DOMAIN ReferencesOf(k) : ReferencesOf(k)[q][1] = x})
                       /\ passed = JBool(FALSE)

\* The ids the steps of the definition have, and how often each occurs
ValidatedIds == {Lookup(ValidatedSteps[k], K.id) :
                    k \in {j \in DOMAIN ValidatedSteps : HasKey(ValidatedSteps[j], K.id)}}
Occurrences(id) ==
    Cardinality({k \in DOMAIN ValidatedSteps : Get(ValidatedSteps[k], K.id, JNull) = id})

(* C15: for a step list in which an id occurs k >= 1 times, validate() adds
   exactly k - 1 duplicate-id errors for that id: one for two steps that share
   an id, none for an id that occurs once; and no duplicate-id error for
   anything else. *)
C15_OneErrorPerRepeatedId ==
    calls = 1
        => /\ \A id \in ValidatedIds :
                Count(errors, "Duplicate step ID: '{step_id}'", <<id>>) = Occurrences(id) - 1
           /\ Cardinality({e \in DOMAIN errors : errors[e].text = "Duplicate step ID: '{step_id}'"})
                = Len(ValidatedSteps) - Cardinality(ValidatedIds)
                  - Cardinality({k \in DOMAIN ValidatedSteps : ~HasKey(ValidatedSteps[k], K.id)})

\* An id that occurs three times drew two errors
C15_Witness ==
    /\ calls = 1
    /\ Len(ValidatedSteps) >= 3
    /\ \E id \in ValidatedIds :
        /\ Occurrences(id) = 3
        /\ Count(errors, "Duplicate step ID: '{step_id}'", <<id>>) = 2
-----------------------------------------------------------------------------
(* Properties of the resolution of inputs and of the end of a run           *)

\* Step n was simulated and its declared input  id  is exactly {{steps.x.outputs.y}}
ResolvedReference(n, x, y) ==
    /\ phase # "INIT"
    /\ n \in DOMAIN inputs
    /\ n \in DOMAIN DeclaredSteps
    /\ Get(Get(DeclaredSteps[n], K.inputs, EmptyObj), K.id, Absent) = JStr(Template(x, y))

\* The memo-table holds a value for field y of step x
MemoHolds(x, y) ==
    x \in DOMAIN simulated_outputs /\ y \in DOMAIN simulated_outputs[x]

\* <unresolved:x.y>
UnresolvedPlaceholder(x, y) == JStr(T.unresolved \o x \o <<".">> \o y \o <<">">>)

(* C16 as stated: a resolved input {{steps.X.outputs.Y}} is the (string form
   of the) value the memo-table holds for field Y of step X when it holds
   one, and in every other case, X not in the memo-table or X in it without
   field Y, it is the unresolved-placeholder that names both X and Y. *)
C16_UnresolvedNamesStepAndField ==
    \A n \in DOMAIN inputs : \A x \in {StepId(1), V.ghost} : \A y \in ReferencedFields :
        (ResolvedReference(n, x, y) /\ x # StepId(n))
            => Lookup(inputs[n], K.id)
                 = IF MemoHolds(x, y)
                   THEN JStr(str(simulated_outputs[x][y]))
                   ELSE UnresolvedPlaceholder(x, y)

(* C17 as stated: the simulator never fails on a missing key: for every
   definition, also one without metadata, without metadata.workflow_name or
   without metadata.platform, execute() ends in DONE or in ABORTED and never
   with an exception. *)
C17_NeverFailsOnMissingKey ==
    /\ phase \in {"INIT", "PRECONDITIONS", "STEPS", "POSTCONDITIONS", "DONE", "ABORTED"}
    /\ \A e \in DOMAIN log : log[e].kind # "KeyError"

\* The id, the operation and the declared output names of step n, as
\* _simulate_step reads them
IdOf(n) == Get(DeclaredSteps[n], K.id, JStr(V.unknown)).str
OperationOf(n) == Get(DeclaredSteps[n], K.operation, JStr(V.unknown))
OutputNamesOf(n) ==
    {Keys(Get(DeclaredSteps[n], K.outputs, EmptyObj))[k] :
        k \in DOMAIN Keys(Get(DeclaredSteps[n], K.outputs, EmptyObj))}

\* The steps _simulate_step has been called for
Simulated == IF phase = "INIT" THEN {} ELSE 1..Len(inputs)

(* C19: a query step and a mutation step record outputs for exactly the
   field names they declare, each value built by the synthesis rule of its
   name, so the same declaration gives the same names and rules for both; a
   workflow step, a custom step and a step of any other or of no operation
   record nothing; and _simulate_step reports no fault whatever the
   operation: a run is aborted in STEPS only at a step none of whose
   predecessors recorded a dependency, and otherwise every step is simulated. *)
C19_OperationDispatch ==
    /\ \A n \in Simulated :
        IF OperationOf(n) \in {JStr(V.query), JStr(V.mutation)}
        THEN /\ IdOf(n) \in DOMAIN simulated_outputs
             /\ DOMAIN simulated_outputs[IdOf(n)] = OutputNamesOf(n)
             /\ \A key \in OutputNamesOf(n) : RuleValue(key, simulated_outputs[IdOf(n)][key])
        ELSE IdOf(n) \notin DOMAIN simulated_outputs
    /\ DOMAIN simulated_outputs \subseteq {IdOf(n) : n \in Simulated}
    /\ phase \in {"POSTCONDITIONS", "DONE"} => Simulated = DOMAIN DeclaredSteps
    /\ (phase = "ABORTED" /\ ~PreConditionFault)
        => /\ DependencyFault
           /\ LastEvent.n = Len(inputs) + 1
           /\ LastEvent.dep.str \notin DOMAIN simulated_outputs
           /\ \E d \in DOMAIN DeclaredDependsOn(LastEvent.n) :
                DeclaredDependsOn(LastEvent.n)[d] = LastEvent.dep

\* A run in which a mutation step recorded the outputs it declares and a query
\* step after it was simulated too
C19_Witness ==
    /\ phase = "DONE"
    /\ Len(inputs) = 2
    /\ OperationOf(1) = JStr(V.mutation)
    /\ OperationOf(2) = JStr(V.query)
    /\ OutputNamesOf(1) = {V.order_id, V.created_date}
    /\ DOMAIN simulated_outputs[IdOf(1)] = {V.order_id, V.created_date}
    /\ IdOf(2) \in DOMAIN simulated_outputs

\* A run in which a step of an operation the executor does not know, and that
\* declares outputs, was simulated
UnknownOperationSimulated ==
    /\ phase = "DONE"
    /\ Len(inputs) = 2
    /\ OperationOf(1) = JStr(V.archive)
    /\ OutputNamesOf(1) # {}
    /\ IdOf(1) \notin DOMAIN simulated_outputs

\* The condition is none of the scenarios _simulate_condition names
Unrecognised(condition) ==
    /\ Get(condition, K.type, JStr(V.unknown)) # JStr(V.security)
    /\ ~Contains(V.check_auth, Get(condition, K.id, JStr(V.unknown)).str)
    /\ ~Contains(V.exists, Get(condition, K.id, JStr(V.unknown)).str)
    /\ ~Contains(V.unique, Get(condition, K.id, JStr(V.unknown)).str)

(* C20: the condition evaluator of the dry run passes every condition,
   whether it recognises it or not, so no pre-condition is reported as failed
   and no run is aborted in PRECONDITIONS; as POSTCONDITIONS never aborts,
   every aborted run was aborted in STEPS by the dependency check, at a step
   with a dependency that is not in the memo-table, and by nothing else. *)
C20_OnlyDependencyFaultsAbort ==
    /\ \A e \in DOMAIN log : log[e].kind \notin {"pre_failed", "abort"}
    /\ ~PreConditionFault
    /\ phase \in {"STEPS", "POSTCONDITIONS", "DONE", "ABORTED"}
        => \A k \in DOMAIN DeclaredPreConditions :
                \E e \in DOMAIN log : log[e].kind = "pre_passed" /\ log[e].n = k
    /\ phase = "ABORTED"
        => /\ DependencyFault
           /\ LastEvent.n = i + 1
           /\ LastEvent.n \in DOMAIN DeclaredSteps
           /\ LastEvent.dep.str \notin DOMAIN simulated_outputs
           /\ \A e \in DOMAIN log : log[e].kind # "post_skipped"

\* A run with a critical pre-condition the evaluator does not recognise that
\* was aborted in STEPS by the dependency check
C20_Witness ==
    /\ DependencyFault
    /\ Len(DeclaredPreConditions) = 1
    /\ Unrecognised(DeclaredPreConditions[1])
    /\ CriticalFlag(DeclaredPreConditions[1])
    /\ \E e \in DOMAIN log : log[e].kind = "pre_passed"
-----------------------------------------------------------------------------
(* Properties of the inputs check and of the dependency check of validate() *)

\* The parameters the block (required or optional) of the inputs validated declares
ValidatedInputs == IF calls = 0 THEN EmptyObj ELSE Get(definition, K.inputs, EmptyObj)
DeclaredParams(block) == Get(ValidatedInputs, block, EmptyObj).obj

(* C21 as stated: validate() reports an error for every declared parameter
   that has no type and a warning for every declared parameter that has no
   description, for the parameters of the optional block as well as for those
   of the required block. *)
C21_EveryParameterIsChecked ==
    calls = 1
        => \A block \in {K.required, K.optional} : \A k \in DOMAIN DeclaredParams(block) :
            LET name == DeclaredParams(block)[k][1]
                param == DeclaredParams(block)[k][2]
            IN  /\ ~HasKey(param, K.type)
                    => Count(errors, "Input '{name}' missing 'type' field", <<name>>) >= 1
                /\ ~HasKey(param, K.description)
                    => Count(warnings, "Input '{name}' missing description", <<name>>) >= 1

(* The same for the required block alone, which is what _validate_inputs
   iterates: one error for each parameter without type, one warning for each
   parameter without description. *)
RequiredParametersAreChecked ==
    calls = 1
        => \A k \in DOMAIN DeclaredParams(K.required) :
            LET name == DeclaredParams(K.required)[k][1]
                param == DeclaredParams(K.required)[k][2]
            IN  /\ Count(errors, "Input '{name}' missing 'type' field", <<name>>)
                     = IF HasKey(param, K.type) THEN 0 ELSE 1
                /\ Count(warnings, "Input '{name}' missing description", <<name>>)
                     = IF HasKey(param, K.description) THEN 0 ELSE 1

\* How often the depends_on list of step k names the id dep, and how often
\* _validate_dependencies reported it as unknown for that step
Entries(k, dep) ==
    Cardinality({d \in DOMAIN DependsOnOf(DependencySteps[k]) :
                    DependsOnOf(DependencySteps[k])[d] = dep})
UnknownDependencyErrors(k, dep) ==
    Count(DependencyErrors, "Step '{step_id}' depends on unknown step '{dep_id}'",
          <<Get(DependencySteps[k], K.id, JStr(V.unknown)), dep>>)
DeclaredIds == {Lookup(DependencySteps[k], K.id) : k \in DOMAIN DependencySteps}

(* C22: for a list of steps with different ids, _validate_dependencies adds
   one error for each depends_on entry whose id no step of the list has, a
   repeated entry counting each time, and the error names the step and the
   missing id; an entry that names the id of a step of the list draws no
   unknown-step error, wherever that step is declared; and there are no other
   unknown-step errors. *)
C22_OneErrorPerUnknownEntry ==
    ret # JNull
        => /\ \A k \in DOMAIN DependencySteps :
                \A dep \in DeclaredIds \cup EntryPool :
                    UnknownDependencyErrors(k, dep)
                        = IF dep \in DeclaredIds THEN 0 ELSE Entries(k, dep)
           /\ Len(DependencyErrors) - Len(CircularErrors)
                = Cardinality(UNION {{<<k, d>> : d \in {d \in DOMAIN DependsOnOf(DependencySteps[k]) :
                                            DependsOnOf(DependencySteps[k])[d] \notin DeclaredIds}} :
                                     k \in DOMAIN DependencySteps})

\* The first of two steps names a missing id twice and the step declared after it
C22_Witness ==
    /\ ret # JNull
    /\ Len(DependencySteps) = 2
    /\ DependsOnOf(DependencySteps[1]) = <<JStr(V.ghost), JStr(V.ghost)>>
    /\ DependsOnOf(DependencySteps[2]) = <<JStr(StepId(1)), JStr(V.ghost)>>
    /\ UnknownDependencyErrors(1, JStr(V.ghost)) = 2
    /\ UnknownDependencyErrors(2, JStr(V.ghost)) = 1
    /\ Len(DependencyErrors) = 3

\* Step a of the list names the id of step b in its depends_on list
DependsDirectly(steps, a, b) ==
    \E d \in DOMAIN DependsOnOf(steps[a]) : DependsOnOf(steps[a])[d] = Lookup(steps[b], K.id)

\* There is a chain of at least one and at most n dependencies from step a to step b
RECURSIVE DependsWithin(_, _, _, _)
DependsWithin(steps, a, b, n) ==
    /\ n >= 1
    /\ \/ DependsDirectly(steps, a, b)
       \/ \E c \in DOMAIN steps :
            DependsDirectly(steps, a, c) /\ DependsWithin(steps, c, b, n - 1)

\* Step a of the list is on a directed cycle of the depends_on relation
OnCycle(steps, a) == DependsWithin(steps, a, a, Len(steps))

\* The depends_on relation between the steps of the list has a directed cycle
DirectedCycle == \E a \in DOMAIN DependencySteps : OnCycle(DependencySteps, a)

(* C23: for a list of steps with different ids, the circular-dependency
   error is reported exactly when the depends_on relation between the steps
   of the list has a directed cycle, a step that depends on itself being one:
   a cycle of any length is found wherever it lies in the list, and a list
   without a cycle, also one where a step is reached along two chains or one
   with entries that name no step, never draws the error. *)
C23_ErrorIffDirectedCycle ==
    ret # JNull => (Len(CircularErrors) = 1 <=> DirectedCycle)

\* A cycle between the second and the third step, reached from the first, was found
C23_Witness ==
    /\ ret # JNull
    /\ Len(DependencySteps) = 3
    /\ DependsOnOf(DependencySteps[1]) = <<JStr(StepId(2))>>
    /\ DependsOnOf(DependencySteps[2]) = <<JStr(StepId(3))>>
    /\ DependsOnOf(DependencySteps[3]) = <<JStr(StepId(2))>>
    /\ Len(CircularErrors) = 1

\* A list where the third step is reached along two chains drew no error
TwoChainsAccepted ==
    /\ ret # JNull
    /\ Len(DependencySteps) = 3
    /\ DependsOnOf(DependencySteps[1]) = <<JStr(StepId(2)), JStr(StepId(3))>>
    /\ DependsOnOf(DependencySteps[2]) = <<JStr(StepId(3))>>
    /\ DependsOnOf(DependencySteps[3]) = <<>>
    /\ DependencyErrors = <<>>
-----------------------------------------------------------------------------
(* The validator and the executor on the same step list                     *)

\* The steps of the definition being executed all have an id, each a different one
UniqueIds ==
    /\ \A k \in DOMAIN DeclaredSteps : HasKey(DeclaredSteps[k], K.id)
    /\ \A j, k \in DOMAIN DeclaredSteps : DeclaredId(j) = DeclaredId(k) => j = k

\* The first step, in declared order, that is on a cycle of the definition being executed
CycleSteps == {k \in DOMAIN DeclaredSteps : OnCycle(DeclaredSteps, k)}
FirstCycleStep == CHOOSE k \in CycleSteps : \A j \in CycleSteps : k <= j

(* C24: for a definition whose steps have different ids and for which the
   validator finds a circular dependency, a fresh run of the executor never
   reaches DONE: no step on a cycle is ever simulated, the step the run stops
   at has a dependency that is not in the memo-table, and the run is aborted
   by the dependency check at or before the first step of the cycle in
   declared order. *)
C24_CyclicDefinitionsAbort ==
    (phase \notin {"INIT", "RAISED"} /\ UniqueIds /\ has_circular_dependency(DeclaredSteps))
        => /\ CycleSteps # {}
           /\ phase \notin {"POSTCONDITIONS", "DONE"}
           /\ i < FirstCycleStep
           /\ Len(inputs) < FirstCycleStep
           /\ \A k \in CycleSteps : DeclaredId(k).str \notin DOMAIN simulated_outputs
           /\ (phase = "STEPS" /\ i = FirstCycleStep - 1)
                => FirstUnsatisfied(DeclaredSteps[FirstCycleStep], simulated_outputs) # 0
           /\ phase = "ABORTED" => DependencyFault /\ LastEvent.n <= FirstCycleStep

\* A run over three steps, the second and the third on a cycle, that simulated
\* the first step and was aborted at the second
C24_Witness ==
    /\ DependencyFault
    /\ UniqueIds
    /\ Len(DeclaredSteps) = 3
    /\ has_circular_dependency(DeclaredSteps)
    /\ CycleSteps = {2, 3}
    /\ Len(inputs) = 1
    /\ LastEvent.n = 2
====
